---- MODULE Spec2Model ----
(***************************************************************************)
(* The flat C binding layer of ON_Viewport (src/c/on_viewport.cpp).        *)
(*                                                                         *)
(* Every exported ON_Viewport_* function is an operator that takes the     *)
(* heap of viewport objects, the raw pointer and the marshalled arguments, *)
(* and returns the heap after the call, the C return value and the         *)
(* contents of the caller's output buffers.  The native ON_Viewport        *)
(* methods the wrappers forward to are not part of on_viewport.cpp; they   *)
(* are the operators named VP_* and follow the viewport contract of the    *)
(* specification (sections 3 and 4).                                       *)
(*                                                                         *)
(* Coordinates are integers.  Directions are axis aligned unit vectors (or *)
(* the zero vector), so that unitizing a direction is exact.               *)
(***************************************************************************)
EXTENDS Integers, Sequences, FiniteSets, TLC

VARIABLES
    v5sr,     \* TRUE iff the build defines RHINO_V5SR
    heap,     \* the ON_Viewport object behind every pointer
    live,     \* the pointers returned by new and not yet deleted
    last,     \* the last call: function, arguments, result, output buffers
    budget,   \* the number of calls the caller still makes
    nullable  \* TRUE iff the caller also passes null viewport pointers

vars == <<budget, v5sr, nullable, live, heap, last>>

\* ------------------------------------------------------------------ bounds
MaxPtrs == 2
MaxSteps == 3
MaxAllSteps == 2
MaxCoord == 8

NULL == 0
Ptrs == 1..MaxPtrs

\* ------------------------------------------------- geometry value types
Vec(x, y, z) == [x |-> x, y |-> y, z |-> z]
ZeroVec == Vec(0, 0, 0)
Dot(a, b) == a.x * b.x + a.y * b.y + a.z * b.z
Cross(a, b) == Vec(a.y * b.z - a.z * b.y, a.z * b.x - a.x * b.z, a.x * b.y - a.y * b.x)
Neg(a) == Vec(-a.x, -a.y, -a.z)
Add(a, b) == Vec(a.x + b.x, a.y + b.y, a.z + b.z)
Sub(a, b) == Vec(a.x - b.x, a.y - b.y, a.z - b.z)
Scale(k, a) == Vec(k * a.x, k * a.y, k * a.z)
Min2(a, b) == IF a < b THEN a ELSE b
Max2(a, b) == IF a > b THEN a ELSE b
Abs(a) == IF a < 0 THEN -a ELSE a

\* ON_3DPOINT_STRUCT / ON_3DVECTOR_STRUCT: double val[3]
Struct3(a, b, c) == [val |-> <<a, b, c>>]
\* ON_3dVector(const double*) and ON_3dPoint(const double*)
ON_3dVector(a) == Vec(a[1], a[2], a[3])
ON_3dPoint(a) == Vec(a[1], a[2], a[3])
\* the implicit conversion ON_3dPoint(const ON_3dVector&)
ON_3dPoint_FromVector(v) == Vec(v.x, v.y, v.z)

IdentityXform == <<<<1, 0, 0, 0>>, <<0, 1, 0, 0>>, <<0, 0, 1, 0>>, <<0, 0, 0, 1>>>>
ZeroXform == <<<<0, 0, 0, 0>>, <<0, 0, 0, 0>>, <<0, 0, 0, 0>>, <<0, 0, 0, 0>>>>
ON_nil_uuid == 0

\* --------------------------------------------------- the viewport object
\* The state after the default constructor ON_Viewport().
DefaultViewport ==
    [cameraLocation |-> Vec(0, 0, 1),
     cameraDirection |-> Vec(0, 0, -1),
     cameraUp |-> Vec(0, 1, 0),
     locationLocked |-> FALSE,
     directionLocked |-> FALSE,
     upLocked |-> FALSE,
     projection |-> "Parallel",
     left |-> -1, right |-> 1, bottom |-> -1, top |-> 1, near |-> 1, far |-> 2,
     leftRightSymmetric |-> FALSE,
     topBottomSymmetric |-> FALSE,
     lensLength |-> 1,
     minNearDist |-> 1,
     minNearOverFar |-> [num |-> 1, den |-> 4],
     viewportId |-> ON_nil_uuid,
     targetPoint |-> ZeroVec,
     port |-> [left |-> 0, right |-> 2, bottom |-> 2, top |-> 0, near |-> 0, far |-> 0],
     viewScale |-> [w |-> 1, h |-> 1],
     clipMod |-> IdentityXform]

\* What a pointer that is not live points at: nothing the program may read.
NoViewport == [DefaultViewport EXCEPT !.projection = "freed"]

IsParallel(a, b) == Cross(a, b) = ZeroVec

VP_IsValidCamera(vp) ==
    /\ vp.cameraDirection # ZeroVec
    /\ vp.cameraUp # ZeroVec
    /\ ~IsParallel(vp.cameraDirection, vp.cameraUp)

VP_IsValidFrustum(vp) ==
    /\ vp.left < vp.right
    /\ vp.bottom < vp.top
    /\ 0 < vp.near
    /\ vp.near < vp.far

VP_IsValid(vp) == VP_IsValidCamera(vp) /\ VP_IsValidFrustum(vp)

\* The camera frame: Z points from the target to the camera, X = up x Z,
\* Y = Z x X.  Exact because directions are axis aligned unit vectors.
VP_CameraZ(vp) == IF VP_IsValidCamera(vp) THEN Neg(vp.cameraDirection) ELSE ZeroVec
VP_CameraX(vp) == IF VP_IsValidCamera(vp) THEN Cross(vp.cameraUp, VP_CameraZ(vp)) ELSE ZeroVec
VP_CameraY(vp) == IF VP_IsValidCamera(vp) THEN Cross(VP_CameraZ(vp), VP_CameraX(vp)) ELSE ZeroVec

\* The result of a native method that changes the object.
Res(vp, rc) == [vp |-> vp, rc |-> rc]

\* --------------------------------------------------------- camera control
VP_SetCameraLocation(vp, p) ==
    IF vp.locationLocked THEN Res(vp, FALSE)
    ELSE Res([vp EXCEPT !.cameraLocation = p], TRUE)

VP_SetCameraDirection(vp, v) ==
    IF vp.directionLocked \/ v = ZeroVec THEN Res(vp, FALSE)
    ELSE Res([vp EXCEPT !.cameraDirection = v], TRUE)

VP_SetCameraUp(vp, v) ==
    IF vp.upLocked \/ v = ZeroVec THEN Res(vp, FALSE)
    ELSE Res([vp EXCEPT !.cameraUp = v], TRUE)

VP_SetCameraLocationLock(vp, b) == [vp EXCEPT !.locationLocked = b]
VP_SetCameraDirectionLock(vp, b) == [vp EXCEPT !.directionLocked = b]
VP_SetCameraUpLock(vp, b) == [vp EXCEPT !.upLocked = b]
VP_UnlockCamera(vp) ==
    [vp EXCEPT !.locationLocked = FALSE, !.directionLocked = FALSE, !.upLocked = FALSE]
VP_SetFrustumLeftRightSymmetry(vp, b) == [vp EXCEPT !.leftRightSymmetric = b]
VP_SetFrustumTopBottomSymmetry(vp, b) == [vp EXCEPT !.topBottomSymmetric = b]
VP_UnlockFrustumSymmetry(vp) ==
    [vp EXCEPT !.leftRightSymmetric = FALSE, !.topBottomSymmetric = FALSE]

\* ------------------------------------------------------ frustum accessors
Frustum(l, r, b, t, n, f) ==
    [left |-> l, right |-> r, bottom |-> b, top |-> t, near |-> n, far |-> f]

FrustumOf(vp) == Frustum(vp.left, vp.right, vp.bottom, vp.top, vp.near, vp.far)

WithFrustum(vp, fr) ==
    [vp EXCEPT !.left = fr.left, !.right = fr.right, !.bottom = fr.bottom,
               !.top = fr.top, !.near = fr.near, !.far = fr.far]

IsValidFrustumArgs(l, r, b, t, n, f) == l < r /\ b < t /\ 0 < n /\ n < f

VP_SetFrustum(vp, l, r, b, t, n, f) ==
    IF IsValidFrustumArgs(l, r, b, t, n, f)
    THEN Res(WithFrustum(vp, Frustum(l, r, b, t, n, f)), TRUE)
    ELSE Res(vp, FALSE)

\* rc and the six values written through the output pointers
VP_GetFrustum(vp) == [rc |-> VP_IsValidFrustum(vp), val |-> FrustumOf(vp)]

\* The aspect d = width / height is an integer here; the dimension that is
\* not the larger one is rescaled about the frustum centre.
VP_SetFrustumAspect(vp, d) ==
    IF ~VP_IsValidFrustum(vp) \/ d <= 0 THEN Res(vp, FALSE)
    ELSE LET w == vp.right - vp.left
             h == vp.top - vp.bottom
         IN IF w >= h
            THEN LET h2 == w \div d
                 IN Res([vp EXCEPT !.bottom = (vp.bottom + vp.top - h2) \div 2,
                                   !.top = (vp.bottom + vp.top + h2) \div 2], TRUE)
            ELSE LET w2 == h * d
                 IN Res([vp EXCEPT !.left = (vp.left + vp.right - w2) \div 2,
                                   !.right = (vp.left + vp.right + w2) \div 2], TRUE)

\* TRUE iff the rescaling above is exact on the integer grid
AspectExact(vp, d) ==
    IF ~VP_IsValidFrustum(vp) \/ d <= 0 THEN TRUE
    ELSE LET w == vp.right - vp.left
             h == vp.top - vp.bottom
         IN IF w >= h
            THEN w % d = 0 /\ (vp.bottom + vp.top - w \div d) % 2 = 0
            ELSE (vp.left + vp.right - h * d) % 2 = 0

VP_SetFrustumNearFar(vp, n, f) ==
    IF 0 < n /\ n < f
    THEN Res([vp EXCEPT !.near = n, !.far = f], TRUE)
    ELSE Res(vp, FALSE)

\* ------------------------------------------------------------ depth queries
Depth(vp, point) == Dot(Sub(vp.cameraLocation, point), VP_CameraZ(vp))

\* near/far after a depth query that found the range [objNear, objFar]
GrowRange(nearIn, farIn, objNear, objFar, growNearFar) ==
    [near |-> IF growNearFar THEN Min2(nearIn, objNear) ELSE objNear,
     far |-> IF growNearFar THEN Max2(farIn, objFar) ELSE objFar]

DepthRes(rc, nearVal, farVal) == [rc |-> rc, near |-> nearVal, far |-> farVal]

VP_GetPointDepth(vp, point, nearIn, farIn, growNearFar) ==
    IF ~VP_IsValidCamera(vp) THEN DepthRes(FALSE, nearIn, farIn)
    ELSE LET d == Depth(vp, point)
             g == GrowRange(nearIn, farIn, d, d, growNearFar)
         IN DepthRes(TRUE, g.near, g.far)

\* ON_BoundingBox(min, max)
ON_BoundingBox(mn, mx) == [m_min |-> mn, m_max |-> mx]
BoxIsValid(bbox) ==
    /\ bbox.m_min.x <= bbox.m_max.x
    /\ bbox.m_min.y <= bbox.m_max.y
    /\ bbox.m_min.z <= bbox.m_max.z
BoxCorners(bbox) ==
    {Vec(x, y, z) : x \in {bbox.m_min.x, bbox.m_max.x},
                    y \in {bbox.m_min.y, bbox.m_max.y},
                    z \in {bbox.m_min.z, bbox.m_max.z}}
SetMin(S) == CHOOSE a \in S : \A b \in S : a <= b
SetMax(S) == CHOOSE a \in S : \A b \in S : a >= b

VP_GetBoundingBoxDepth(vp, bbox, nearIn, farIn, growNearFar) ==
    IF ~VP_IsValidCamera(vp) \/ ~BoxIsValid(bbox) THEN DepthRes(FALSE, nearIn, farIn)
    ELSE LET ds == {Depth(vp, c) : c \in BoxCorners(bbox)}
             g == GrowRange(nearIn, farIn, SetMin(ds), SetMax(ds), growNearFar)
         IN DepthRes(TRUE, g.near, g.far)

\* ON_Sphere(center, radius)
ON_Sphere(c, radius) == [center |-> c, radius |-> radius]

VP_GetSphereDepth(vp, sphere, nearIn, farIn, growNearFar) ==
    IF ~VP_IsValidCamera(vp) \/ sphere.radius < 0 THEN DepthRes(FALSE, nearIn, farIn)
    ELSE LET d == Depth(vp, sphere.center)
             g == GrowRange(nearIn, farIn, d - sphere.radius, d + sphere.radius,
                            growNearFar)
         IN DepthRes(TRUE, g.near, g.far)

\* ------------------------------------------- near/far from bounds and policy
VP_SetFrustumNearFarBox(vp, mn, mx) ==
    LET d == VP_GetBoundingBoxDepth(vp, ON_BoundingBox(mn, mx), 0, 0, FALSE)
    IN IF d.rc THEN VP_SetFrustumNearFar(vp, d.near, d.far) ELSE Res(vp, FALSE)

VP_SetFrustumNearFarSphere(vp, c, radius) ==
    LET d == VP_GetSphereDepth(vp, ON_Sphere(c, radius), 0, 0, FALSE)
    IN IF d.rc THEN VP_SetFrustumNearFar(vp, d.near, d.far) ELSE Res(vp, FALSE)

\* smallest integer q with q * den >= num (den > 0)
CeilDiv(num, den) == (num + den - 1) \div den

\* The policy overload: near is raised to minNearDist and to
\* far * minNearOverFar; the ratio is the fraction ratio.num / ratio.den.
VP_SetFrustumNearFarPolicy(vp, n, f, minNearDist, ratio, targetDistance) ==
    IF ~(0 < n /\ n < f) \/ ratio.den <= 0 \/ ratio.num < 0 THEN Res(vp, FALSE)
    ELSE LET n1 == Max2(n, minNearDist)
             n2 == Max2(n1, CeilDiv(f * ratio.num, ratio.den))
         IN VP_SetFrustumNearFar(vp, n2, f)

\* ------------------------------------------------------------- navigation
IsPerspective(vp) == vp.projection \in {"Perspective", "TwoPointPerspective"}

\* VP_DollyFrustum without the check that near stays positive
VP_DollyFrustum_Unchecked(vp, dollyDistance) ==
    IF ~VP_IsValidFrustum(vp) THEN Res(vp, FALSE)
    ELSE Res([vp EXCEPT !.near = vp.near + dollyDistance, !.far = vp.far + dollyDistance], TRUE)

\* near and far move by dollyDistance; in a perspective view the near
\* rectangle scales with near.
VP_DollyFrustum(vp, dollyDistance) ==
    LET n2 == vp.near + dollyDistance
        f2 == vp.far + dollyDistance
    IN IF ~VP_IsValidFrustum(vp) \/ n2 <= 0 THEN Res(vp, FALSE)
       ELSE IF IsPerspective(vp)
            THEN Res(WithFrustum(vp, Frustum((vp.left * n2) \div vp.near,
                                             (vp.right * n2) \div vp.near,
                                             (vp.bottom * n2) \div vp.near,
                                             (vp.top * n2) \div vp.near, n2, f2)), TRUE)
            ELSE Res([vp EXCEPT !.near = n2, !.far = f2], TRUE)

DollyExact(vp, dollyDistance) ==
    LET n2 == vp.near + dollyDistance
    IN IF ~VP_IsValidFrustum(vp) \/ n2 <= 0 \/ ~IsPerspective(vp) THEN TRUE
       ELSE \A e \in {vp.left, vp.right, vp.bottom, vp.top} : (e * n2) % vp.near = 0

VP_ExtentsSphere(vp, halfViewAngle, c, radius) ==
    IF ~VP_IsValidCamera(vp) \/ halfViewAngle <= 0 \/ radius <= 0 THEN Res(vp, FALSE)
    ELSE Res([WithFrustum(vp, Frustum(-radius, radius, -radius, radius, radius, 3 * radius))
                 EXCEPT !.cameraLocation = Sub(c, Scale(2 * radius, vp.cameraDirection)),
                        !.targetPoint = c], TRUE)

\* the sphere about the box's minimum corner that contains the box
VP_ExtentsBBox(vp, halfViewAngle, bbox) ==
    IF ~BoxIsValid(bbox) THEN Res(vp, FALSE)
    ELSE VP_ExtentsSphere(vp, halfViewAngle, bbox.m_min,
                          (bbox.m_max.x - bbox.m_min.x) + (bbox.m_max.y - bbox.m_min.y)
                          + (bbox.m_max.z - bbox.m_min.z))

\* The frustum is narrowed to the part seen through the screen rectangle;
\* screen y grows downwards.
VP_ZoomToScreenRect(vp, sl, st, sr, sb) ==
    LET pw == vp.port.right - vp.port.left
        ph == vp.port.bottom - vp.port.top
        w == vp.right - vp.left
        h == vp.top - vp.bottom
    IN IF ~VP_IsValidFrustum(vp) \/ sl >= sr \/ st >= sb \/ pw <= 0 \/ ph <= 0
       THEN Res(vp, FALSE)
       ELSE Res([vp EXCEPT !.left = vp.left + (w * (sl - vp.port.left)) \div pw,
                           !.right = vp.left + (w * (sr - vp.port.left)) \div pw,
                           !.top = vp.top - (h * (st - vp.port.top)) \div ph,
                           !.bottom = vp.top - (h * (sb - vp.port.top)) \div ph], TRUE)

ZoomExact(vp, sl, st, sr, sb) ==
    LET pw == vp.port.right - vp.port.left
        ph == vp.port.bottom - vp.port.top
        w == vp.right - vp.left
        h == vp.top - vp.bottom
    IN IF ~VP_IsValidFrustum(vp) \/ sl >= sr \/ st >= sb \/ pw <= 0 \/ ph <= 0 THEN TRUE
       ELSE /\ (w * (sl - vp.port.left)) % pw = 0
            /\ (w * (sr - vp.port.left)) % pw = 0
            /\ (h * (st - vp.port.top)) % ph = 0
            /\ (h * (sb - vp.port.top)) % ph = 0

\* ------------------------------------------------- projection transitions
\* left = -right (resp. bottom = -top) with the width (height) kept
Symmetrize(vp, lr, tb) ==
    LET w == vp.right - vp.left
        h == vp.top - vp.bottom
        a == IF lr THEN [vp EXCEPT !.left = -(w \div 2), !.right = w \div 2,
                                   !.leftRightSymmetric = TRUE]
             ELSE vp
    IN IF tb THEN [a EXCEPT !.bottom = -(h \div 2), !.top = h \div 2,
                            !.topBottomSymmetric = TRUE]
       ELSE a

SymmetrizeExact(vp, lr, tb) ==
    /\ lr => (vp.right - vp.left) % 2 = 0
    /\ tb => (vp.top - vp.bottom) % 2 = 0

VP_ChangeToSymmetricFrustum(vp, lr, tb, targetDistance) ==
    IF ~VP_IsValid(vp) THEN Res(vp, FALSE)
    ELSE Res(Symmetrize(vp, lr, tb), TRUE)

VP_ChangeToParallelProjection(vp, symmetricFrustum) ==
    IF ~VP_IsValid(vp) THEN Res(vp, FALSE)
    ELSE Res([Symmetrize(vp, symmetricFrustum, symmetricFrustum)
                 EXCEPT !.projection = "Parallel"], TRUE)

VP_ChangeToPerspectiveProjection(vp, targetDistance, symmetricFrustum, lensLength) ==
    IF ~VP_IsValid(vp) \/ targetDistance <= 0 THEN Res(vp, FALSE)
    ELSE Res([Symmetrize(vp, symmetricFrustum, symmetricFrustum)
                 EXCEPT !.projection = "Perspective",
                        !.lensLength = IF lensLength > 0 THEN lensLength ELSE @], TRUE)

VP_ChangeToTwoPointPerspectiveProjection(vp, targetDistance, up, lensLength) ==
    IF ~VP_IsValid(vp) \/ targetDistance <= 0 THEN Res(vp, FALSE)
    ELSE Res([vp EXCEPT !.projection = "TwoPointPerspective",
                        !.cameraUp = IF up = ZeroVec \/ IsParallel(up, vp.cameraDirection)
                                     THEN @ ELSE up,
                        !.lensLength = IF lensLength > 0 THEN lensLength ELSE @], TRUE)

VP_GetCamera35mmLensLength(vp) == [rc |-> VP_IsValidFrustum(vp), val |-> vp.lensLength]
VP_SetCamera35mmLensLength(vp, d) ==
    IF ~VP_IsValidFrustum(vp) \/ d <= 0 THEN Res(vp, FALSE)
    ELSE Res([vp EXCEPT !.lensLength = d], TRUE)

\* the point on the view axis at targetDistance in front of the camera
VP_FrustumCenterPoint(vp, targetDistance) ==
    Add(vp.cameraLocation, Scale(targetDistance, vp.cameraDirection))
VP_TargetDistance(vp, useFrustumCenterFallback) ==
    Dot(Sub(vp.cameraLocation, vp.targetPoint), VP_CameraZ(vp))
VP_SetPerspectiveClippingPlaneConstraints(vp, depthBufferBitDepth) ==
    [vp EXCEPT !.minNearDist = 1,
               !.minNearOverFar = [num |-> 1,
                                   den |-> IF depthBufferBitDepth >= 32 THEN 8 ELSE 4]]

\* the pure function ON_Viewport::GetPerspectiveClippingPlaneConstraints
VP_GetPerspectiveClippingPlaneConstraints(cameraLocation, depthBufferBitDepth) ==
    [minNearDist |-> 1,
     minNearOverFar |-> [num |-> 1, den |-> IF depthBufferBitDepth >= 32 THEN 8 ELSE 4]]

VP_DollyCamera(vp, v) ==
    IF vp.locationLocked THEN Res(vp, FALSE)
    ELSE Res([vp EXCEPT !.cameraLocation = Add(@, v)], TRUE)

\* ======================================================================
\* The exported functions of src/c/on_viewport.cpp
\* ======================================================================
\* An output pointer: null, or the address of a caller's buffer holding val.
Buf(v) == [null |-> FALSE, val |-> v]
NullBuf(v) == [null |-> TRUE, val |-> v]
Store(buf, v) == [buf EXCEPT !.val = v]

\* What a call yields: the heap after it, the C return value ("void" when
\* the function returns nothing) and the output buffers after it.
Ret(h, rc, out) == [heap |-> h, rc |-> rc, out |-> out]

\* pVP->Method(...) for a method that returns bool and may change *pVP
Forward(h, pVP, res) == Ret([h EXCEPT ![pVP] = res.vp], res.rc, <<>>)
\* pVP->Method(...) for a void method that changes *pVP
ForwardVoid(h, pVP, vp) == Ret([h EXCEPT ![pVP] = vp], "void", <<>>)

\* ON_Viewport_New handing back the viewport it was given instead of a copy
ON_Viewport_New_Alias(h, pVP, q) ==
    IF pVP # NULL
    THEN Ret(h, pVP, <<>>)
    ELSE Ret([h EXCEPT ![q] = DefaultViewport], q, <<>>)

\* q is the address operator new returns
ON_Viewport_New(h, pVP, q) ==
    IF pVP # NULL
    THEN Ret([h EXCEPT ![q] = h[pVP]], q, <<>>)
    ELSE Ret([h EXCEPT ![q] = DefaultViewport], q, <<>>)

idxIsValidCamera == 0
idxIsValidFrustum == 1
idxIsValid == 2
idxIsPerspectiveProjection == 3
idxIsParallelProjection == 4
idxIsCameraLocationLocked == 5
idxIsCameraDirectionLocked == 6
idxIsCameraUpLocked == 7
idxIsFrustumLeftRightSymmetric == 8
idxIsFrustumTopBottomSymmetric == 9

ON_Viewport_GetBool(h, pConstViewport, which) ==
    IF pConstViewport = NULL THEN Ret(h, FALSE, <<>>)
    ELSE LET vp == h[pConstViewport]
         IN Ret(h,
                CASE which = idxIsValidCamera -> VP_IsValidCamera(vp)
                  [] which = idxIsValidFrustum -> VP_IsValidFrustum(vp)
                  [] which = idxIsValid -> VP_IsValid(vp)
                  [] v5sr /\ which = idxIsPerspectiveProjection -> vp.projection = "Perspective"
                  [] v5sr /\ which = idxIsParallelProjection -> vp.projection = "Parallel"
                  [] v5sr /\ which = idxIsCameraLocationLocked -> vp.locationLocked
                  [] v5sr /\ which = idxIsCameraDirectionLocked -> vp.directionLocked
                  [] v5sr /\ which = idxIsCameraUpLocked -> vp.upLocked
                  [] v5sr /\ which = idxIsFrustumLeftRightSymmetric -> vp.leftRightSymmetric
                  [] v5sr /\ which = idxIsFrustumTopBottomSymmetric -> vp.topBottomSymmetric
                  [] OTHER -> FALSE,
                <<>>)

ON_Viewport_ChangeToParallelProjection(h, pVP, symmetricFrustum) ==
    IF v5sr
    THEN IF pVP # NULL
         THEN Forward(h, pVP, VP_ChangeToParallelProjection(h[pVP], symmetricFrustum))
         ELSE Ret(h, FALSE, <<>>)
    ELSE Ret(h, FALSE, <<>>)

\* ON_Viewport_ChangeToPerspectiveProjection with targetDistance and lensLength
\* passed in the wrong order
ON_Viewport_ChangeToPerspectiveProjection_Swapped(h, pVP, targetDistance, symmetricFrustum, lensLength) ==
    IF v5sr
    THEN IF pVP # NULL
         THEN Forward(h, pVP, VP_ChangeToPerspectiveProjection(h[pVP], lensLength,
                                                               symmetricFrustum, targetDistance))
         ELSE Ret(h, FALSE, <<>>)
    ELSE Ret(h, FALSE, <<>>)

ON_Viewport_ChangeToPerspectiveProjection(h, pVP, targetDistance, symmetricFrustum, lensLength) ==
    IF v5sr
    THEN IF pVP # NULL
         THEN Forward(h, pVP, VP_ChangeToPerspectiveProjection(h[pVP], targetDistance,
                                                               symmetricFrustum, lensLength))
         ELSE Ret(h, FALSE, <<>>)
    ELSE Ret(h, FALSE, <<>>)

ON_Viewport_ChangeToTwoPointPerspectiveProjection(h, pVP, targetDistance, up, lensLength) ==
    IF v5sr
    THEN IF pVP # NULL
         THEN Forward(h, pVP, VP_ChangeToTwoPointPerspectiveProjection(
                                  h[pVP], targetDistance, ON_3dVector(up.val), lensLength))
         ELSE Ret(h, FALSE, <<>>)
    ELSE Ret(h, FALSE, <<>>)

ON_Viewport_CameraLocation(h, pVP, p) ==
    IF pVP # NULL /\ ~p.null
    THEN Ret(h, "void", <<Store(p, h[pVP].cameraLocation)>>)
    ELSE Ret(h, "void", <<p>>)

ON_Viewport_CameraDirection(h, pVP, p) ==
    IF pVP # NULL /\ ~p.null
    THEN Ret(h, "void", <<Store(p, h[pVP].cameraDirection)>>)
    ELSE Ret(h, "void", <<p>>)

ON_Viewport_SetCameraDirection(h, pVP, v) ==
    IF pVP # NULL
    THEN Forward(h, pVP, VP_SetCameraDirection(h[pVP], ON_3dVector(v.val)))
    ELSE Ret(h, FALSE, <<>>)

\* ON_Viewport_SetCameraLocation treating its argument as a translation
ON_Viewport_SetCameraLocation_Translate(h, pVP, v) ==
    IF pVP # NULL
    THEN Forward(h, pVP, VP_SetCameraLocation(h[pVP],
                                              Add(h[pVP].cameraLocation, ON_3dVector(v.val))))
    ELSE Ret(h, FALSE, <<>>)

\* The argument is converted to ON_3dVector and from there, implicitly, to
\* the ON_3dPoint that ON_Viewport::SetCameraLocation takes.
ON_Viewport_SetCameraLocation(h, pVP, v) ==
    IF pVP # NULL
    THEN Forward(h, pVP, VP_SetCameraLocation(h[pVP],
                                              ON_3dPoint_FromVector(ON_3dVector(v.val))))
    ELSE Ret(h, FALSE, <<>>)

ON_Viewport_CameraUp(h, pVP, p) ==
    IF pVP # NULL /\ ~p.null
    THEN Ret(h, "void", <<Store(p, h[pVP].cameraUp)>>)
    ELSE Ret(h, "void", <<p>>)

ON_Viewport_SetCameraUp(h, pVP, v) ==
    IF pVP # NULL
    THEN Forward(h, pVP, VP_SetCameraUp(h[pVP], ON_3dVector(v.val)))
    ELSE Ret(h, FALSE, <<>>)

idxCameraLocationLock == 0
idxCameraDirectionLock == 1
idxCameraUpLock == 2

\* ON_Viewport_SetLocked compiled without the RHINO_V5SR condition
ON_Viewport_SetLocked_Unconditional(h, pViewport, which, b) ==
    IF pViewport # NULL
    THEN IF idxCameraLocationLock = which
         THEN ForwardVoid(h, pViewport, VP_SetCameraLocationLock(h[pViewport], b))
         ELSE IF idxCameraDirectionLock = which
         THEN ForwardVoid(h, pViewport, VP_SetCameraDirectionLock(h[pViewport], b))
         ELSE IF idxCameraUpLock = which
         THEN ForwardVoid(h, pViewport, VP_SetCameraUpLock(h[pViewport], b))
         ELSE Ret(h, "void", <<>>)
    ELSE Ret(h, "void", <<>>)

\* ON_Viewport_SetLocked with the location and direction branches exchanged
ON_Viewport_SetLocked_Exchanged(h, pViewport, which, b) ==
    IF v5sr /\ pViewport # NULL
    THEN IF idxCameraLocationLock = which
         THEN ForwardVoid(h, pViewport, VP_SetCameraDirectionLock(h[pViewport], b))
         ELSE IF idxCameraDirectionLock = which
         THEN ForwardVoid(h, pViewport, VP_SetCameraLocationLock(h[pViewport], b))
         ELSE IF idxCameraUpLock = which
         THEN ForwardVoid(h, pViewport, VP_SetCameraUpLock(h[pViewport], b))
         ELSE Ret(h, "void", <<>>)
    ELSE Ret(h, "void", <<>>)

ON_Viewport_SetLocked(h, pViewport, which, b) ==
    IF v5sr /\ pViewport # NULL
    THEN IF idxCameraLocationLock = which
         THEN ForwardVoid(h, pViewport, VP_SetCameraLocationLock(h[pViewport], b))
         ELSE IF idxCameraDirectionLock = which
         THEN ForwardVoid(h, pViewport, VP_SetCameraDirectionLock(h[pViewport], b))
         ELSE IF idxCameraUpLock = which
         THEN ForwardVoid(h, pViewport, VP_SetCameraUpLock(h[pViewport], b))
         ELSE Ret(h, "void", <<>>)
    ELSE Ret(h, "void", <<>>)

ON_Viewport_SetIsFrustumSymmetry(h, pViewport, leftright, b) ==
    IF pViewport # NULL /\ v5sr
    THEN IF leftright
         THEN ForwardVoid(h, pViewport, VP_SetFrustumLeftRightSymmetry(h[pViewport], b))
         ELSE ForwardVoid(h, pViewport, VP_SetFrustumTopBottomSymmetry(h[pViewport], b))
    ELSE Ret(h, "void", <<>>)

ON_Viewport_Unlock(h, pViewport, camera) ==
    IF pViewport # NULL /\ v5sr
    THEN IF camera
         THEN ForwardVoid(h, pViewport, VP_UnlockCamera(h[pViewport]))
         ELSE ForwardVoid(h, pViewport, VP_UnlockFrustumSymmetry(h[pViewport]))
    ELSE Ret(h, "void", <<>>)

ON_Viewport_CameraAxis(h, pConstViewport, iAxis, v) ==
    IF pConstViewport # NULL /\ ~v.null
    THEN CASE iAxis = 0 -> Ret(h, "void", <<Store(v, VP_CameraX(h[pConstViewport]))>>)
           [] iAxis = 1 -> Ret(h, "void", <<Store(v, VP_CameraY(h[pConstViewport]))>>)
           [] iAxis = 2 -> Ret(h, "void", <<Store(v, VP_CameraZ(h[pConstViewport]))>>)
           [] OTHER -> Ret(h, "void", <<v>>)
    ELSE Ret(h, "void", <<v>>)

\* ON_Viewport_SetFrustum with left and right passed in the wrong order
ON_Viewport_SetFrustum_Swapped(h, pViewport, left, right, bottom, top, nearDistance, farDistance) ==
    IF pViewport # NULL
    THEN Forward(h, pViewport, VP_SetFrustum(h[pViewport], right, left, bottom, top,
                                             nearDistance, farDistance))
    ELSE Ret(h, FALSE, <<>>)

ON_Viewport_SetFrustum(h, pViewport, left, right, bottom, top, nearDistance, farDistance) ==
    IF pViewport # NULL
    THEN Forward(h, pViewport, VP_SetFrustum(h[pViewport], left, right, bottom, top,
                                             nearDistance, farDistance))
    ELSE Ret(h, FALSE, <<>>)

\* ON_Viewport_GetFrustum with the bottom and top outputs passed in the wrong order
ON_Viewport_GetFrustum_Swapped(h, pConstViewport, out) ==
    IF pConstViewport # NULL /\ \A i \in 1..6 : ~out[i].null
    THEN LET g == VP_GetFrustum(h[pConstViewport])
         IN IF g.rc
            THEN Ret(h, TRUE, <<Store(out[1], g.val.left), Store(out[2], g.val.right),
                                 Store(out[3], g.val.top), Store(out[4], g.val.bottom),
                                 Store(out[5], g.val.near), Store(out[6], g.val.far)>>)
            ELSE Ret(h, FALSE, out)
    ELSE Ret(h, FALSE, out)

\* out = <<left, right, bottom, top, nearDistance, farDistance>>
ON_Viewport_GetFrustum(h, pConstViewport, out) ==
    IF pConstViewport # NULL /\ \A i \in 1..6 : ~out[i].null
    THEN LET g == VP_GetFrustum(h[pConstViewport])
         IN IF g.rc
            THEN Ret(h, TRUE, <<Store(out[1], g.val.left), Store(out[2], g.val.right),
                                 Store(out[3], g.val.bottom), Store(out[4], g.val.top),
                                 Store(out[5], g.val.near), Store(out[6], g.val.far)>>)
            ELSE Ret(h, FALSE, out)
    ELSE Ret(h, FALSE, out)

ON_Viewport_SetFrustumAspect(h, pVP, d) ==
    IF pVP # NULL
    THEN LET r == VP_SetFrustumAspect(h[pVP], d)
         IN Ret([h EXCEPT ![pVP] = r.vp], IF r.rc THEN 1 ELSE 0, <<>>)
    ELSE Ret(h, 0, <<>>)

ON_Viewport_SetFrustumNearFarBoundingBox(h, pVP, mn, mx) ==
    IF pVP # NULL
    THEN Forward(h, pVP, VP_SetFrustumNearFarBox(h[pVP], ON_3dPoint(mn.val), ON_3dPoint(mx.val)))
    ELSE Ret(h, FALSE, <<>>)

ON_Viewport_SetFrustumNearFarSphere(h, pVP, center, radius) ==
    IF pVP # NULL
    THEN Forward(h, pVP, VP_SetFrustumNearFarSphere(h[pVP], ON_3dPoint(center.val), radius))
    ELSE Ret(h, FALSE, <<>>)

ON_Viewport_SetFrustumNearFar(h, pVP, nearDistance, farDistance) ==
    IF pVP # NULL
    THEN Forward(h, pVP, VP_SetFrustumNearFar(h[pVP], nearDistance, farDistance))
    ELSE Ret(h, FALSE, <<>>)

ON_Viewport_ChangeToSymmetricFrustum(h, pVP, isLeftRightSymmetric, isTopBottomSymmetric, targetDistance) ==
    IF pVP # NULL /\ v5sr
    THEN Forward(h, pVP, VP_ChangeToSymmetricFrustum(h[pVP], isLeftRightSymmetric,
                                                     isTopBottomSymmetric, targetDistance))
    ELSE Ret(h, FALSE, <<>>)

\* the two output buffers of a depth query after the native call
DepthOut(nearDistance, farDistance, d) ==
    <<Store(nearDistance, d.near), Store(farDistance, d.far)>>

ON_Viewport_GetPointDepth(h, pVP, point, nearDistance, farDistance, growNearFar) ==
    IF pVP # NULL /\ ~nearDistance.null /\ ~farDistance.null
    THEN LET d == VP_GetPointDepth(h[pVP], ON_3dPoint(point.val), nearDistance.val,
                                   farDistance.val, growNearFar)
         IN Ret(h, d.rc, DepthOut(nearDistance, farDistance, d))
    ELSE Ret(h, FALSE, <<nearDistance, farDistance>>)

\* ON_Viewport_GetBoundingBoxDepth that does not pass growNearFar on
ON_Viewport_GetBoundingBoxDepth_NoGrow(h, pVP, mn, mx, nearDistance, farDistance, growNearFar) ==
    IF pVP # NULL /\ ~nearDistance.null /\ ~farDistance.null
    THEN LET d == VP_GetBoundingBoxDepth(h[pVP],
                                         ON_BoundingBox(ON_3dPoint(mn.val), ON_3dPoint(mx.val)),
                                         nearDistance.val, farDistance.val, FALSE)
         IN Ret(h, d.rc, DepthOut(nearDistance, farDistance, d))
    ELSE Ret(h, FALSE, <<nearDistance, farDistance>>)

ON_Viewport_GetBoundingBoxDepth(h, pVP, mn, mx, nearDistance, farDistance, growNearFar) ==
    IF pVP # NULL /\ ~nearDistance.null /\ ~farDistance.null
    THEN LET d == VP_GetBoundingBoxDepth(h[pVP],
                                         ON_BoundingBox(ON_3dPoint(mn.val), ON_3dPoint(mx.val)),
                                         nearDistance.val, farDistance.val, growNearFar)
         IN Ret(h, d.rc, DepthOut(nearDistance, farDistance, d))
    ELSE Ret(h, FALSE, <<nearDistance, farDistance>>)

ON_Viewport_GetSphereDepth(h, pVP, center, radius, nearDistance, farDistance, growNearFar) ==
    IF pVP # NULL /\ ~nearDistance.null /\ ~farDistance.null
    THEN LET d == VP_GetSphereDepth(h[pVP], ON_Sphere(ON_3dPoint(center.val), radius),
                                    nearDistance.val, farDistance.val, growNearFar)
         IN Ret(h, d.rc, DepthOut(nearDistance, farDistance, d))
    ELSE Ret(h, FALSE, <<nearDistance, farDistance>>)

ON_Viewport_SetFrustrumNearFar(h, pVP, nearDistance, farDistance, minNearDistance, minNearOverFar, targetDistance) ==
    IF pVP # NULL
    THEN Forward(h, pVP, VP_SetFrustumNearFarPolicy(h[pVP], nearDistance, farDistance,
                                                    minNearDistance, minNearOverFar,
                                                    targetDistance))
    ELSE Ret(h, FALSE, <<>>)

ON_Viewport_GetCamera35mmLensLength(h, pConstViewport, d) ==
    IF pConstViewport # NULL /\ ~d.null /\ v5sr
    THEN LET g == VP_GetCamera35mmLensLength(h[pConstViewport])
         IN Ret(h, g.rc, <<IF g.rc THEN Store(d, g.val) ELSE d>>)
    ELSE Ret(h, FALSE, <<d>>)

ON_Viewport_SetCamera35mmLensLength(h, pVP, d) ==
    IF pVP # NULL /\ v5sr
    THEN Forward(h, pVP, VP_SetCamera35mmLensLength(h[pVP], d))
    ELSE Ret(h, FALSE, <<>>)

ON_Viewport_ExtentsBBox(h, pVP, halfViewAngle, mn, mx) ==
    IF pVP # NULL
    THEN Forward(h, pVP, VP_ExtentsBBox(h[pVP], halfViewAngle,
                                        ON_BoundingBox(ON_3dPoint(mn.val), ON_3dPoint(mx.val))))
    ELSE Ret(h, FALSE, <<>>)

ON_Viewport_ExtentsSphere(h, pVP, halfViewAngle, center, radius) ==
    IF pVP # NULL
    THEN Forward(h, pVP, VP_ExtentsSphere(h[pVP], halfViewAngle, ON_3dPoint(center.val), radius))
    ELSE Ret(h, FALSE, <<>>)

ON_Viewport_ZoomToScreenRect(h, pVP, left, top, right, bottom) ==
    IF pVP # NULL
    THEN Forward(h, pVP, VP_ZoomToScreenRect(h[pVP], left, top, right, bottom))
    ELSE Ret(h, FALSE, <<>>)

ON_Viewport_DollyCamera(h, pVP, dollyVector) ==
    IF pVP # NULL
    THEN Forward(h, pVP, VP_DollyCamera(h[pVP], ON_3dVector(dollyVector.val)))
    ELSE Ret(h, FALSE, <<>>)

ON_Viewport_DollyFrustum(h, pVP, dollyDistance) ==
    IF pVP # NULL
    THEN Forward(h, pVP, VP_DollyFrustum(h[pVP], dollyDistance))
    ELSE Ret(h, FALSE, <<>>)

ON_Viewport_ClipModXform(h, pConstViewport, matrix) ==
    IF pConstViewport # NULL /\ ~matrix.null
    THEN Ret(h, "void", <<Store(matrix, h[pConstViewport].clipMod)>>)
    ELSE Ret(h, "void", <<matrix>>)

\* the clip-modification transform of this model is always the identity,
\* which is its own inverse
ON_Viewport_ClipModInverseXform(h, pConstViewport, matrix) ==
    IF pConstViewport # NULL /\ ~matrix.null
    THEN Ret(h, "void", <<Store(matrix, h[pConstViewport].clipMod)>>)
    ELSE Ret(h, "void", <<matrix>>)

ON_Viewport_FrustumCenterPoint(h, pConstViewport, targetDistance, point) ==
    IF pConstViewport # NULL /\ ~point.null /\ v5sr
    THEN Ret(h, "void", <<Store(point, VP_FrustumCenterPoint(h[pConstViewport], targetDistance))>>)
    ELSE Ret(h, "void", <<point>>)

ON_Viewport_TargetPoint(h, pConstViewport, point) ==
    IF pConstViewport # NULL /\ ~point.null
    THEN Ret(h, "void", <<Store(point, h[pConstViewport].targetPoint)>>)
    ELSE Ret(h, "void", <<point>>)

ON_Viewport_SetTargetPoint(h, pVP, point) ==
    IF pVP # NULL
    THEN ForwardVoid(h, pVP, [h[pVP] EXCEPT !.targetPoint = ON_3dPoint(point.val)])
    ELSE Ret(h, "void", <<>>)

ON_Viewport_TargetDistance(h, pConstViewport, useFrustumCenterFallback) ==
    IF pConstViewport # NULL /\ v5sr
    THEN Ret(h, VP_TargetDistance(h[pConstViewport], useFrustumCenterFallback), <<>>)
    ELSE Ret(h, 0, <<>>)

ON_Viewport_GetPerspectiveClippingPlaneConstraints(h, cameraLocation, depthBufferBitDepth, minNearDist, minNearOverFar) ==
    IF ~minNearDist.null /\ ~minNearOverFar.null /\ v5sr
    THEN LET c == VP_GetPerspectiveClippingPlaneConstraints(ON_3dPoint(cameraLocation.val),
                                                            depthBufferBitDepth)
         IN Ret(h, "void", <<Store(minNearDist, c.minNearDist),
                              Store(minNearOverFar, c.minNearOverFar)>>)
    ELSE Ret(h, "void", <<minNearDist, minNearOverFar>>)

ON_Viewport_SetPerspectiveClippingPlaneConstraints(h, pVP, depthBufferBitDepth) ==
    IF pVP # NULL /\ v5sr
    THEN ForwardVoid(h, pVP, VP_SetPerspectiveClippingPlaneConstraints(h[pVP], depthBufferBitDepth))
    ELSE Ret(h, "void", <<>>)

ON_Viewport_GetViewportId(h, pVP) ==
    IF pVP # NULL THEN Ret(h, h[pVP].viewportId, <<>>) ELSE Ret(h, ON_nil_uuid, <<>>)

\* ON_Viewport_SetViewportId with return 1 placed after the null check
ON_Viewport_SetViewportId_AlwaysOne(h, pVP, id) ==
    IF pVP # NULL
    THEN Ret([h EXCEPT ![pVP] = [@ EXCEPT !.viewportId = id]], 1, <<>>)
    ELSE Ret(h, 1, <<>>)

ON_Viewport_SetViewportId(h, pVP, id) ==
    IF pVP # NULL
    THEN Ret([h EXCEPT ![pVP] = [@ EXCEPT !.viewportId = id]], 1, <<>>)
    ELSE Ret(h, 0, <<>>)

\* delete pVP: deleting the null pointer does nothing
ON_Viewport_Delete(h, pVP) ==
    IF pVP # NULL THEN Ret([h EXCEPT ![pVP] = NoViewport], "void", <<>>)
    ELSE Ret(h, "void", <<>>)

\* ------------------------------------------- the remaining native methods
Ratio(n, d) == [num |-> n, den |-> d]
VP_GetCameraFrame(vp) ==
    [rc |-> VP_IsValidCamera(vp), location |-> vp.cameraLocation,
     X |-> VP_CameraX(vp), Y |-> VP_CameraY(vp), Z |-> VP_CameraZ(vp)]
\* width / height
VP_GetFrustumAspect(vp) ==
    [rc |-> VP_IsValidFrustum(vp), val |-> Ratio(vp.right - vp.left, vp.top - vp.bottom)]
\* the centre of the near plane rectangle in world coordinates, in halves
VP_GetFrustumCenter(vp) ==
    [rc |-> VP_IsValid(vp),
     val |-> [num |-> Add(Add(Scale(2, vp.cameraLocation),
                              Scale(vp.left + vp.right, VP_CameraX(vp))),
                          Sub(Scale(vp.bottom + vp.top, VP_CameraY(vp)),
                              Scale(2 * vp.near, VP_CameraZ(vp)))),
              den |-> 2]]
VP_FrustumMinimumDiameter(vp) == Min2(vp.right - vp.left, vp.top - vp.bottom)
VP_FrustumMaximumDiameter(vp) == Max2(vp.right - vp.left, vp.top - vp.bottom)
VP_SetScreenPort(vp, l, r, b, t, n, f) ==
    IF l = r \/ b = t THEN Res(vp, FALSE)
    ELSE Res([vp EXCEPT !.port = [left |-> l, right |-> r, bottom |-> b, top |-> t,
                                  near |-> IF n # 0 \/ f # 0 THEN n ELSE @.near,
                                  far |-> IF n # 0 \/ f # 0 THEN f ELSE @.far]], TRUE)
VP_GetScreenPort(vp) ==
    [rc |-> vp.port.left # vp.port.right /\ vp.port.bottom # vp.port.top, val |-> vp.port]
VP_GetScreenPortAspect(vp) ==
    [rc |-> vp.port.left # vp.port.right /\ vp.port.bottom # vp.port.top,
     val |-> Ratio(Abs(vp.port.right - vp.port.left), Abs(vp.port.bottom - vp.port.top))]
\* the angle is given by its tangent d; 0 stands for an angle out of (0, pi/2)
VP_SetCameraAngle(vp, d) ==
    IF d <= 0 \/ ~VP_IsValidFrustum(vp) THEN Res(vp, FALSE)
    ELSE LET w == vp.right - vp.left
             h == vp.top - vp.bottom
             half_w == IF w >= h THEN vp.near * d ELSE (vp.near * d * w) \div h
             half_h == IF w >= h THEN (vp.near * d * h) \div w ELSE vp.near * d
         IN VP_SetFrustum(vp, -half_w, half_w, -half_h, half_h, vp.near, vp.far)
\* TRUE iff the half extents above are exact on the integer grid
CameraAngleExact(vp, d) ==
    IF d <= 0 \/ ~VP_IsValidFrustum(vp) THEN TRUE
    ELSE LET w == vp.right - vp.left
             h == vp.top - vp.bottom
         IN IF w >= h THEN (vp.near * d * h) % w = 0 ELSE (vp.near * d * w) % h = 0
VP_ClipModXformIsIdentity(vp) == vp.clipMod = IdentityXform
VP_SetPerspectiveMinNearOverFar(vp, d) ==
    IF 0 < d.num /\ d.num < d.den THEN [vp EXCEPT !.minNearOverFar = d] ELSE vp
VP_SetPerspectiveMinNearDist(vp, d) ==
    IF 0 < d THEN [vp EXCEPT !.minNearDist = d] ELSE vp
VP_SetViewScale(vp, w, h) ==
    IF w > 0 /\ h > 0 THEN [vp EXCEPT !.viewScale = [w |-> w, h |-> h]] ELSE vp
\* What a native method whose arithmetic is not modelled may do with its
\* output v: succeed and write it, fail after writing, or fail and write nothing.
Outcomes(v) ==
    {[rc |-> TRUE, writes |-> TRUE, val |-> v], [rc |-> FALSE, writes |-> TRUE, val |-> v],
     [rc |-> FALSE, writes |-> FALSE, val |-> v]}
Written(buf, n) == IF n.writes THEN Store(buf, n.val) ELSE buf

\* ------------------------------------------- the remaining exported functions
ON_Viewport_GetCameraFrame(h, pVP, location, cameraX, cameraY, cameraZ) ==
    IF pVP # NULL /\ ~location.null /\ ~cameraX.null /\ ~cameraY.null /\ ~cameraZ.null
    THEN LET g == VP_GetCameraFrame(h[pVP])
         IN IF g.rc
            THEN Ret(h, TRUE, <<Store(location, g.location), Store(cameraX, g.X),
                                 Store(cameraY, g.Y), Store(cameraZ, g.Z)>>)
            ELSE Ret(h, FALSE, <<location, cameraX, cameraY, cameraZ>>)
    ELSE Ret(h, FALSE, <<location, cameraX, cameraY, cameraZ>>)

ON_Viewport_GetFrustrumAspect(h, pVP, dAspect) ==
    IF pVP # NULL /\ ~dAspect.null
    THEN LET g == VP_GetFrustumAspect(h[pVP])
         IN Ret(h, g.rc, <<IF g.rc THEN Store(dAspect, g.val) ELSE dAspect>>)
    ELSE Ret(h, FALSE, <<dAspect>>)

ON_Viewport_GetFrustumCenter(h, pVP, p) ==
    IF pVP # NULL /\ ~p.null
    THEN LET g == VP_GetFrustumCenter(h[pVP])
         IN Ret(h, IF g.rc THEN 1 ELSE 0, <<IF g.rc THEN Store(p, g.val) ELSE p>>)
    ELSE Ret(h, 0, <<p>>)

idxFrustumLeft == 0
idxFrustumRight == 1
idxFrustumBottom == 2
idxFrustumTop == 3
idxFrustumNear == 4
idxFrustumFar == 5
idxFrustumMinimumDiameter == 6
idxFrustumMaximumDiameter == 7
ON_Viewport_GetDouble(h, pConstViewport, which) ==
    IF pConstViewport # NULL
    THEN LET vp == h[pConstViewport]
         IN Ret(h, CASE which = idxFrustumLeft -> vp.left
                     [] which = idxFrustumRight -> vp.right
                     [] which = idxFrustumBottom -> vp.bottom
                     [] which = idxFrustumTop -> vp.top
                     [] which = idxFrustumNear -> vp.near
                     [] which = idxFrustumFar -> vp.far
                     [] which = idxFrustumMinimumDiameter /\ v5sr -> VP_FrustumMinimumDiameter(vp)
                     [] which = idxFrustumMaximumDiameter /\ v5sr -> VP_FrustumMaximumDiameter(vp)
                     [] OTHER -> 0, <<>>)
    ELSE Ret(h, 0, <<>>)

idxNearPlane == 0
idxFarPlane == 1
idxLeftPlane == 2
idxRightPlane == 3
idxBottomPlane == 4
idxTopPlane == 5
\* native is what GetNearPlane .. GetFrustumTopPlane yields
ON_Viewport_GetPlane(h, pConstViewport, which, plane, native) ==
    IF pConstViewport # NULL /\ ~plane.null
    THEN LET rc == IF which \in {idxNearPlane, idxFarPlane, idxLeftPlane, idxRightPlane,
                                 idxBottomPlane, idxTopPlane}
                    THEN native.rc ELSE FALSE
         IN Ret(h, rc, <<IF rc THEN Store(plane, native.val) ELSE plane>>)
    ELSE Ret(h, FALSE, <<plane>>)

ON_Viewport_SetScreenPort(h, pVP, left, right, bottom, top, near, far) ==
    IF pVP # NULL
    THEN Forward(h, pVP, VP_SetScreenPort(h[pVP], left, right, bottom, top, near, far))
    ELSE Ret(h, FALSE, <<>>)

ON_Viewport_GetScreenPort(h, pConstViewport, out) ==
    IF pConstViewport # NULL /\ \A i \in 1..6 : ~out[i].null
    THEN LET g == VP_GetScreenPort(h[pConstViewport])
         IN IF g.rc
            THEN Ret(h, TRUE, <<Store(out[1], g.val.left), Store(out[2], g.val.right),
                                 Store(out[3], g.val.bottom), Store(out[4], g.val.top),
                                 Store(out[5], g.val.near), Store(out[6], g.val.far)>>)
            ELSE Ret(h, FALSE, out)
    ELSE Ret(h, FALSE, out)

ON_Viewport_GetScreenPortAspect(h, pConstViewport, dAspect) ==
    IF pConstViewport # NULL /\ ~dAspect.null
    THEN LET g == VP_GetScreenPortAspect(h[pConstViewport])
         IN Ret(h, g.rc, <<IF g.rc THEN Store(dAspect, g.val) ELSE dAspect>>)
    ELSE Ret(h, FALSE, <<dAspect>>)

\* native is what GetCameraAngle with three outputs yields
ON_Viewport_GetCameraAngle2(h, pConstViewport, halfDiagonalAngle, halfVerticalAngle, halfHorizontalAngle, native) ==
    IF pConstViewport # NULL /\ ~halfDiagonalAngle.null /\ ~halfVerticalAngle.null
       /\ ~halfHorizontalAngle.null
    THEN Ret(h, native.rc, <<Written(halfDiagonalAngle, native), Written(halfVerticalAngle, native),
                             Written(halfHorizontalAngle, native)>>)
    ELSE Ret(h, FALSE, <<halfDiagonalAngle, halfVerticalAngle, halfHorizontalAngle>>)

\* native is what GetCameraAngle with one output yields
ON_Viewport_GetCameraAngle(h, pConstViewport, d, native) ==
    IF pConstViewport # NULL /\ ~d.null
    THEN Ret(h, native.rc, <<Written(d, native)>>)
    ELSE Ret(h, FALSE, <<d>>)

ON_Viewport_SetCameraAngle(h, pVP, d) ==
    IF pVP # NULL
    THEN Forward(h, pVP, VP_SetCameraAngle(h[pVP], d))
    ELSE Ret(h, FALSE, <<>>)

\* native is what GetXform yields
ON_Viewport_GetXform(h, pConstViewport, sourceCoordSystem, destinationCoordSystem, matrix, native) ==
    IF pConstViewport # NULL /\ ~matrix.null
    THEN Ret(h, native.rc, <<Written(matrix, native)>>)
    ELSE Ret(h, FALSE, <<matrix>>)

\* native is what GetFrustumLine yields
ON_Viewport_GetFrustumLine(h, pConstViewport, screenX, screenY, line, native) ==
    IF pConstViewport # NULL /\ ~line.null
    THEN Ret(h, native.rc, <<Written(line, native)>>)
    ELSE Ret(h, FALSE, <<line>>)

\* native is what GetWorldToScreenScale yields
ON_Viewport_GetWorldToScreenScale(h, pConstViewport, pointInFrustum, pixels_per_unit, native) ==
    IF pConstViewport # NULL /\ ~pixels_per_unit.null
    THEN Ret(h, native.rc, <<Written(pixels_per_unit, native)>>)
    ELSE Ret(h, FALSE, <<pixels_per_unit>>)

\* native is what GetDollyCameraVector yields
ON_Viewport_GetDollyCameraVector(h, pConstViewport, screen, projectionPlaneDistance, v, native) ==
    IF pConstViewport # NULL /\ ~v.null
    THEN Ret(h, native.rc, <<Written(v, native)>>)
    ELSE Ret(h, FALSE, <<v>>)

ON_Viewport_GetViewScale(h, pConstViewport, w, hh) ==
    IF pConstViewport # NULL /\ ~w.null /\ ~hh.null
    THEN Ret(h, "void", <<Store(w, h[pConstViewport].viewScale.w),
                          Store(hh, h[pConstViewport].viewScale.h)>>)
    ELSE Ret(h, "void", <<w, hh>>)

ON_Viewport_SetViewScale(h, pVP, w, hh) ==
    IF pVP # NULL THEN ForwardVoid(h, pVP, VP_SetViewScale(h[pVP], w, hh))
    ELSE Ret(h, "void", <<>>)

ON_Viewport_ClipModXformIsIdentity(h, pConstViewport) ==
    IF pConstViewport # NULL THEN Ret(h, VP_ClipModXformIsIdentity(h[pConstViewport]), <<>>)
    ELSE Ret(h, FALSE, <<>>)

\* 0.0 as a ratio
ZeroRatio == Ratio(0, 1)
ON_Viewport_GetPerspectiveMinNearOverFar(h, pVP) ==
    IF pVP # NULL THEN Ret(h, h[pVP].minNearOverFar, <<>>) ELSE Ret(h, ZeroRatio, <<>>)

ON_Viewport_SetPerspectiveMinNearOverFar(h, pVP, d) ==
    IF pVP # NULL
    THEN Ret([h EXCEPT ![pVP] = VP_SetPerspectiveMinNearOverFar(h[pVP], d)], 1, <<>>)
    ELSE Ret(h, 0, <<>>)

ON_Viewport_GetPerspectiveMinNearDist(h, pVP) ==
    IF pVP # NULL THEN Ret(h, h[pVP].minNearDist, <<>>) ELSE Ret(h, 0, <<>>)

ON_Viewport_SetPerspectiveMinNearDist(h, pVP, d) ==
    IF pVP # NULL
    THEN Ret([h EXCEPT ![pVP] = VP_SetPerspectiveMinNearDist(h[pVP], d)], 1, <<>>)
    ELSE Ret(h, 0, <<>>)

\* ------------------------------------------------ the near and far rectangle
\* the corner (x, y) of the frustum section at depth d, in world coordinates
RectCorner(vp, x, y, d) ==
    Add(Add(vp.cameraLocation, Scale(x, VP_CameraX(vp))),
        Sub(Scale(y, VP_CameraY(vp)), Scale(d, VP_CameraZ(vp))))
\* rc and the corners leftBottom, rightBottom, leftTop, rightTop
VP_GetNearRect(vp) ==
    [rc |-> VP_IsValid(vp),
     val |-> <<RectCorner(vp, vp.left, vp.bottom, vp.near), RectCorner(vp, vp.right, vp.bottom, vp.near),
               RectCorner(vp, vp.left, vp.top, vp.near), RectCorner(vp, vp.right, vp.top, vp.near)>>]
\* in a perspective projection the far section is the near one scaled by far / near
FarScaled(vp, x) == IF IsPerspective(vp) THEN (x * vp.far) \div vp.near ELSE x
VP_GetFarRect(vp) ==
    [rc |-> VP_IsValid(vp),
     val |-> <<RectCorner(vp, FarScaled(vp, vp.left), FarScaled(vp, vp.bottom), vp.far),
               RectCorner(vp, FarScaled(vp, vp.right), FarScaled(vp, vp.bottom), vp.far),
               RectCorner(vp, FarScaled(vp, vp.left), FarScaled(vp, vp.top), vp.far),
               RectCorner(vp, FarScaled(vp, vp.right), FarScaled(vp, vp.top), vp.far)>>]
\* TRUE iff the scaling above is exact on the integer grid
FarRectExact(vp) ==
    IF ~IsPerspective(vp) \/ ~VP_IsValid(vp) THEN TRUE
    ELSE \A x \in {vp.left, vp.right, vp.bottom, vp.top} : (x * vp.far) % vp.near = 0

\* A call that bound a reference to a null pointer; kind says what came of
\* it.  After "fault" the call does not return and rc is not a value the
\* caller sees.
Undefined(h, rc, out, kind) == [heap |-> h, rc |-> rc, out |-> out, ub |-> kind]
\* What binding a reference to *rightTop for a null rightTop can lead to
\* once the native method g has run: the method stores the fourth corner at
\* address 0, which faults ("fault") or lands in mapped memory ("stored");
\* a method that fails stores nothing, and the null reference goes unused
\* ("unused").
NullReferenceOutcomes(g) == IF g.rc THEN {"fault", "stored"} ELSE {"unused"}

\* The null test names leftBottom twice and rightTop not at all; ub chooses
\* among NullReferenceOutcomes when the native method is handed *rightTop
\* for a null rightTop.
ON_Viewport_GetNearFarRect(h, pConstViewport, near, leftBottom, rightBottom, leftTop, rightTop, ub) ==
    IF pConstViewport # NULL /\ ~leftBottom.null /\ ~rightBottom.null /\ ~leftTop.null
       /\ ~leftBottom.null
    THEN LET g == IF near THEN VP_GetNearRect(h[pConstViewport])
                  ELSE VP_GetFarRect(h[pConstViewport])
             three == <<Store(leftBottom, g.val[1]), Store(rightBottom, g.val[2]),
                        Store(leftTop, g.val[3])>>
             all == <<leftBottom, rightBottom, leftTop, rightTop>>
         IN IF ~rightTop.null
            THEN IF g.rc THEN Ret(h, TRUE, three \o <<Store(rightTop, g.val[4])>>)
                 ELSE Ret(h, FALSE, all)
            ELSE CASE ub = "unused" -> Undefined(h, FALSE, all, ub)
                   [] ub = "stored" ->
                        Undefined(h, TRUE, three \o <<Store(rightTop, g.val[4])>>, ub)
                   [] ub = "fault" -> Undefined(h, FALSE, three \o <<rightTop>>, ub)
    ELSE Ret(h, FALSE, <<leftBottom, rightBottom, leftTop, rightTop>>)

\* ======================================================================
\* The callers: one action per exported function
\* ======================================================================
\* The pointers a caller passes: a viewport it owns, or null.
Targets == IF nullable THEN live \cup {NULL} ELSE live

\* operator new returns the lowest address that is not in use
NewAddress == CHOOSE q \in Ptrs \ live : \A r \in Ptrs \ live : q <= r

\* ------------------------------------------------- the inputs that are tried
Garbage == Vec(7, 7, 7)
VecBufs == {NullBuf(ZeroVec), Buf(Garbage)}
XformBufs == {NullBuf(ZeroXform), Buf(ZeroXform)}
NumBufs == {NullBuf(9), Buf(9)}
FrustumInputs ==
    {<<-2, 2, -1, 1, 1, 2>>, <<0, 2, -1, 3, 1, 3>>, <<-2, 0, 1, 3, 2, 4>>,
     <<2, 2, -1, 1, 1, 2>>, <<2, -2, -1, 1, 1, 2>>, <<-2, 2, 1, 1, 1, 2>>,
     <<-2, 2, 3, 1, 1, 2>>, <<-2, 2, -1, 1, 0, 2>>, <<-2, 2, -1, 1, -1, 2>>,
     <<-2, 2, -1, 1, 2, 2>>, <<-2, 2, -1, 1, 3, 2>>}
\* six output buffers holding 9, the i-th one null (none when i = 0)
SixBufs(i) == [k \in 1..6 |-> IF k = i THEN NullBuf(9) ELSE Buf(9)]
NearFarInputs == {<<0, 2>>, <<2, 2>>, <<2, 4>>}
\* depth ranges seen from the default camera: [2, 7], [-2, -1]; an invalid box
BoxInputs ==
    {<<Struct3(0, 0, -6), Struct3(1, 1, -1)>>, <<Struct3(0, 0, 2), Struct3(1, 0, 3)>>,
     <<Struct3(1, 0, 0), Struct3(0, 0, 0)>>}
PointInputs == {Struct3(0, 0, -3), Struct3(1, 2, 3)}
RangeBufs == {<<Buf(5), Buf(10)>>, <<Buf(3), Buf(4)>>, <<NullBuf(5), Buf(10)>>, <<Buf(5), NullBuf(10)>>}
Ratios == {[num |-> 1, den |-> 2], [num |-> 1, den |-> 4]}
ScreenRects == {<<0, 0, 1, 1>>, <<1, 0, 2, 2>>, <<1, 1, 1, 2>>}

\* every coordinate the viewports hold is within the model's grid
InRange(x) == -MaxCoord <= x /\ x <= MaxCoord
OnGrid(h) ==
    \A p \in Ptrs :
        /\ \A x \in {h[p].left, h[p].right, h[p].bottom, h[p].top, h[p].near, h[p].far} :
               InRange(x)
        /\ InRange(h[p].cameraLocation.x)
        /\ InRange(h[p].cameraLocation.y)
        /\ InRange(h[p].cameraLocation.z)

NoCall ==
    [op |-> "none", pVP |-> NULL, arg |-> <<>>, in |-> <<>>, rc |-> "void", out |-> <<>>,
     ub |-> "none"]

\* The undefined behaviour the call ran into: "none", or what came of it.
UbOf(r) == IF "ub" \in DOMAIN r THEN r.ub ELSE "none"
\* TRUE iff the call ended in an access violation instead of returning
Faulted(r) == UbOf(r) = "fault"

\* The call op(p, arg), with output buffers in, yields r.  A call that faults
\* ends the process: the caller makes no further call.
Call(op, p, arg, in, r) ==
    /\ budget > 0
    /\ OnGrid(r.heap)
    /\ heap' = r.heap
    /\ last' = [op |-> op, pVP |-> p, arg |-> arg, in |-> in, rc |-> r.rc, out |-> r.out,
                ub |-> UbOf(r)]
    /\ budget' = IF Faulted(r) THEN 0 ELSE budget - 1
    /\ UNCHANGED <<v5sr, nullable>>

\* No viewport exists yet; the caller makes n calls.
Start(n, withNull) ==
    /\ v5sr \in BOOLEAN
    /\ heap = [p \in Ptrs |-> NoViewport]
    /\ live = {}
    /\ last = NoCall
    /\ budget = n
    /\ nullable = withNull

\* a caller that owns every pointer it passes
Init == Start(MaxSteps, FALSE)
\* a caller that also passes null pointers
InitAll == Start(MaxAllSteps, TRUE)

New ==
    \E src \in live \cup {NULL} :
        /\ live # Ptrs
        /\ Call("New", src, <<>>, <<>>, ON_Viewport_New(heap, src, NewAddress))
        /\ live' = live \cup {ON_Viewport_New(heap, src, NewAddress).rc}

Delete ==
    \E p \in Targets :
        /\ Call("Delete", p, <<>>, <<>>, ON_Viewport_Delete(heap, p))
        /\ live' = live \ {p}

GetBool ==
    \E p \in Targets, which \in 0..10 :
        /\ Call("GetBool", p, <<which>>, <<>>, ON_Viewport_GetBool(heap, p, which))
        /\ UNCHANGED live

ChangeToParallelProjection ==
    \E p \in Targets, sym \in BOOLEAN :
        /\ p # NULL => SymmetrizeExact(heap[p], sym, sym)
        /\ Call("ChangeToParallelProjection", p, <<sym>>, <<>>,
                ON_Viewport_ChangeToParallelProjection(heap, p, sym))
        /\ UNCHANGED live

ChangeToPerspectiveProjection ==
    \E p \in Targets, a \in {<<0, FALSE>>, <<2, FALSE>>, <<2, TRUE>>}, lens \in {2} :
        /\ p # NULL => SymmetrizeExact(heap[p], a[2], a[2])
        /\ Call("ChangeToPerspectiveProjection", p, <<a[1], a[2], lens>>, <<>>,
                ON_Viewport_ChangeToPerspectiveProjection(heap, p, a[1], a[2], lens))
        /\ UNCHANGED live

ChangeToTwoPointPerspectiveProjection ==
    \E p \in Targets, td \in {0, 2}, up \in {Struct3(1, 0, 0)}, lens \in {2} :
        /\ Call("ChangeToTwoPointPerspectiveProjection", p, <<td, up, lens>>, <<>>,
                ON_Viewport_ChangeToTwoPointPerspectiveProjection(heap, p, td, up, lens))
        /\ UNCHANGED live

ChangeToSymmetricFrustum ==
    \E p \in Targets, a \in {<<TRUE, FALSE>>, <<TRUE, TRUE>>}, td \in {2} :
        /\ p # NULL => SymmetrizeExact(heap[p], a[1], a[2])
        /\ Call("ChangeToSymmetricFrustum", p, <<a[1], a[2], td>>, <<>>,
                ON_Viewport_ChangeToSymmetricFrustum(heap, p, a[1], a[2], td))
        /\ UNCHANGED live

CameraLocation ==
    \E p \in Targets, b \in VecBufs :
        /\ Call("CameraLocation", p, <<>>, <<b>>, ON_Viewport_CameraLocation(heap, p, b))
        /\ UNCHANGED live

CameraDirection ==
    \E p \in Targets, b \in VecBufs :
        /\ Call("CameraDirection", p, <<>>, <<b>>, ON_Viewport_CameraDirection(heap, p, b))
        /\ UNCHANGED live

CameraUp ==
    \E p \in Targets, b \in VecBufs :
        /\ Call("CameraUp", p, <<>>, <<b>>, ON_Viewport_CameraUp(heap, p, b))
        /\ UNCHANGED live

CameraAxis ==
    \E p \in Targets, iAxis \in 0..3, b \in VecBufs :
        /\ Call("CameraAxis", p, <<iAxis>>, <<b>>, ON_Viewport_CameraAxis(heap, p, iAxis, b))
        /\ UNCHANGED live

SetCameraLocation ==
    \E p \in Targets, v \in PointInputs :
        /\ Call("SetCameraLocation", p, <<v>>, <<>>, ON_Viewport_SetCameraLocation(heap, p, v))
        /\ UNCHANGED live

SetCameraDirection ==
    \E p \in Targets, v \in {Struct3(0, 0, 0), Struct3(0, 1, 0), Struct3(1, 0, 0)} :
        /\ Call("SetCameraDirection", p, <<v>>, <<>>, ON_Viewport_SetCameraDirection(heap, p, v))
        /\ UNCHANGED live

SetCameraUp ==
    \E p \in Targets, v \in {Struct3(0, 0, 0), Struct3(0, 0, -1), Struct3(1, 0, 0)} :
        /\ Call("SetCameraUp", p, <<v>>, <<>>, ON_Viewport_SetCameraUp(heap, p, v))
        /\ UNCHANGED live

SetLocked ==
    \E p \in Targets, which \in 0..3, b \in BOOLEAN :
        /\ Call("SetLocked", p, <<which, b>>, <<>>, ON_Viewport_SetLocked(heap, p, which, b))
        /\ UNCHANGED live

SetIsFrustumSymmetry ==
    \E p \in Targets, leftright \in BOOLEAN, b \in {TRUE} :
        /\ Call("SetIsFrustumSymmetry", p, <<leftright, b>>, <<>>,
                ON_Viewport_SetIsFrustumSymmetry(heap, p, leftright, b))
        /\ UNCHANGED live

Unlock ==
    \E p \in Targets, camera \in BOOLEAN :
        /\ Call("Unlock", p, <<camera>>, <<>>, ON_Viewport_Unlock(heap, p, camera))
        /\ UNCHANGED live

SetFrustum ==
    \E p \in Targets, a \in FrustumInputs :
        /\ Call("SetFrustum", p, a, <<>>,
                ON_Viewport_SetFrustum(heap, p, a[1], a[2], a[3], a[4], a[5], a[6]))
        /\ UNCHANGED live

GetFrustum ==
    \E p \in Targets, i \in {0, 3} :
        /\ Call("GetFrustum", p, <<>>, SixBufs(i), ON_Viewport_GetFrustum(heap, p, SixBufs(i)))
        /\ UNCHANGED live

SetFrustumAspect ==
    \E p \in Targets, d \in {0, 2} :
        /\ p # NULL => AspectExact(heap[p], d)
        /\ Call("SetFrustumAspect", p, <<d>>, <<>>, ON_Viewport_SetFrustumAspect(heap, p, d))
        /\ UNCHANGED live

SetFrustumNearFar ==
    \E p \in Targets, a \in NearFarInputs :
        /\ Call("SetFrustumNearFar", p, a, <<>>,
                ON_Viewport_SetFrustumNearFar(heap, p, a[1], a[2]))
        /\ UNCHANGED live

SetFrustumNearFarBoundingBox ==
    \E p \in Targets, a \in BoxInputs :
        /\ Call("SetFrustumNearFarBoundingBox", p, a, <<>>,
                ON_Viewport_SetFrustumNearFarBoundingBox(heap, p, a[1], a[2]))
        /\ UNCHANGED live

SetFrustumNearFarSphere ==
    \E p \in Targets, c \in {Struct3(0, 0, -3)}, radius \in {1, 5} :
        /\ Call("SetFrustumNearFarSphere", p, <<c, radius>>, <<>>,
                ON_Viewport_SetFrustumNearFarSphere(heap, p, c, radius))
        /\ UNCHANGED live

SetFrustrumNearFar ==
    \E p \in Targets, a \in {<<1, 8, 1, 2>>, <<1, 8, 1, 4>>, <<0, 2, 1, 2>>, <<3, 4, 1, 1>>} :
        /\ Call("SetFrustrumNearFar", p, a, <<>>,
                ON_Viewport_SetFrustrumNearFar(heap, p, a[1], a[2], 2,
                                               [num |-> a[3], den |-> a[4]], 2))
        /\ UNCHANGED live

GetPointDepth ==
    \E p \in Targets, pt \in PointInputs, b \in RangeBufs, grow \in BOOLEAN :
        /\ Call("GetPointDepth", p, <<pt, grow>>, b,
                ON_Viewport_GetPointDepth(heap, p, pt, b[1], b[2], grow))
        /\ UNCHANGED live

GetBoundingBoxDepth ==
    \E p \in Targets, a \in BoxInputs, b \in RangeBufs, grow \in BOOLEAN :
        /\ Call("GetBoundingBoxDepth", p, <<a[1], a[2], grow>>, b,
                ON_Viewport_GetBoundingBoxDepth(heap, p, a[1], a[2], b[1], b[2], grow))
        /\ UNCHANGED live

GetSphereDepth ==
    \E p \in Targets, c \in PointInputs, radius \in {1, -1}, b \in RangeBufs, grow \in BOOLEAN :
        /\ Call("GetSphereDepth", p, <<c, radius, grow>>, b,
                ON_Viewport_GetSphereDepth(heap, p, c, radius, b[1], b[2], grow))
        /\ UNCHANGED live

ExtentsBBox ==
    \E p \in Targets, a \in {<<1, 1>>, <<0, 1>>, <<1, 3>>} :
        /\ Call("ExtentsBBox", p, <<a[1], a[2]>>, <<>>,
                ON_Viewport_ExtentsBBox(heap, p, a[1], Struct3(0, 0, 0), Struct3(a[2], 0, 0)))
        /\ UNCHANGED live

ExtentsSphere ==
    \E p \in Targets, c \in {Struct3(0, 0, -3)}, radius \in {0, 1} :
        /\ Call("ExtentsSphere", p, <<1, c, radius>>, <<>>,
                ON_Viewport_ExtentsSphere(heap, p, 1, c, radius))
        /\ UNCHANGED live

ZoomToScreenRect ==
    \E p \in Targets, a \in ScreenRects :
        /\ p # NULL => ZoomExact(heap[p], a[1], a[2], a[3], a[4])
        /\ Call("ZoomToScreenRect", p, a, <<>>,
                ON_Viewport_ZoomToScreenRect(heap, p, a[1], a[2], a[3], a[4]))
        /\ UNCHANGED live

DollyCamera ==
    \E p \in Targets, v \in {Struct3(0, 0, 1)} :
        /\ Call("DollyCamera", p, <<v>>, <<>>, ON_Viewport_DollyCamera(heap, p, v))
        /\ UNCHANGED live

DollyFrustum ==
    \E p \in Targets, d \in {-1, 1} :
        /\ p # NULL => DollyExact(heap[p], d)
        /\ Call("DollyFrustum", p, <<d>>, <<>>, ON_Viewport_DollyFrustum(heap, p, d))
        /\ UNCHANGED live

ClipModXform ==
    \E p \in Targets, b \in XformBufs :
        /\ Call("ClipModXform", p, <<>>, <<b>>, ON_Viewport_ClipModXform(heap, p, b))
        /\ UNCHANGED live

ClipModInverseXform ==
    \E p \in Targets, b \in XformBufs :
        /\ Call("ClipModInverseXform", p, <<>>, <<b>>, ON_Viewport_ClipModInverseXform(heap, p, b))
        /\ UNCHANGED live

GetCamera35mmLensLength ==
    \E p \in Targets, b \in NumBufs :
        /\ Call("GetCamera35mmLensLength", p, <<>>, <<b>>,
                ON_Viewport_GetCamera35mmLensLength(heap, p, b))
        /\ UNCHANGED live

SetCamera35mmLensLength ==
    \E p \in Targets, d \in {0, 3} :
        /\ Call("SetCamera35mmLensLength", p, <<d>>, <<>>,
                ON_Viewport_SetCamera35mmLensLength(heap, p, d))
        /\ UNCHANGED live

FrustumCenterPoint ==
    \E p \in Targets, td \in {2}, b \in VecBufs :
        /\ Call("FrustumCenterPoint", p, <<td>>, <<b>>,
                ON_Viewport_FrustumCenterPoint(heap, p, td, b))
        /\ UNCHANGED live

TargetPoint ==
    \E p \in Targets, b \in VecBufs :
        /\ Call("TargetPoint", p, <<>>, <<b>>, ON_Viewport_TargetPoint(heap, p, b))
        /\ UNCHANGED live

SetTargetPoint ==
    \E p \in Targets, pt \in {Struct3(0, 0, -3)} :
        /\ Call("SetTargetPoint", p, <<pt>>, <<>>, ON_Viewport_SetTargetPoint(heap, p, pt))
        /\ UNCHANGED live

TargetDistance ==
    \E p \in Targets, fallback \in BOOLEAN :
        /\ Call("TargetDistance", p, <<fallback>>, <<>>,
                ON_Viewport_TargetDistance(heap, p, fallback))
        /\ UNCHANGED live

\* a static function: it takes no viewport
GetPerspectiveClippingPlaneConstraints ==
    \E loc \in {Struct3(0, 0, 1)}, depth \in {16, 32},
       b \in {<<Buf(9), Buf(9)>>, <<NullBuf(9), Buf(9)>>, <<Buf(9), NullBuf(9)>>} :
        /\ Call("GetPerspectiveClippingPlaneConstraints", NULL, <<loc, depth>>, b,
                ON_Viewport_GetPerspectiveClippingPlaneConstraints(heap, loc, depth, b[1], b[2]))
        /\ UNCHANGED live

SetPerspectiveClippingPlaneConstraints ==
    \E p \in Targets, depth \in {16, 32} :
        /\ Call("SetPerspectiveClippingPlaneConstraints", p, <<depth>>, <<>>,
                ON_Viewport_SetPerspectiveClippingPlaneConstraints(heap, p, depth))
        /\ UNCHANGED live

GetViewportId ==
    \E p \in Targets :
        /\ Call("GetViewportId", p, <<>>, <<>>, ON_Viewport_GetViewportId(heap, p))
        /\ UNCHANGED live

SetViewportId ==
    \E p \in Targets, id \in {7} :
        /\ Call("SetViewportId", p, <<id>>, <<>>, ON_Viewport_SetViewportId(heap, p, id))
        /\ UNCHANGED live

\* ------------------------------------- the remaining exported functions
RatioBufs == {NullBuf(ZeroRatio), Buf(Ratio(9, 1))}
CenterBufs == {NullBuf([num |-> Garbage, den |-> 1]), Buf([num |-> Garbage, den |-> 1])}
ON_Plane(o, z) == [origin |-> o, zaxis |-> z]
PlaneBufs == {NullBuf(ON_Plane(Garbage, Garbage)), Buf(ON_Plane(Garbage, Garbage))}
ON_Line(a, b) == [from |-> a, to |-> b]
LineBufs == {NullBuf(ON_Line(Garbage, Garbage)), Buf(ON_Line(Garbage, Garbage))}
\* n output buffers, the i-th one null (none when i = 0)
SomeBufs(n, i, v) == [k \in 1..n |-> IF k = i THEN NullBuf(v) ELSE Buf(v)]
PortInputs == {<<0, 4, 4, 0, 0, 0>>, <<0, 0, 4, 0, 0, 0>>, <<0, 2, 2, 0, 1, 2>>}

GetCameraFrame ==
    \E p \in Targets, i \in 0..4 :
        LET b == SomeBufs(4, i, Garbage)
        IN /\ Call("GetCameraFrame", p, <<>>, b,
                   ON_Viewport_GetCameraFrame(heap, p, b[1], b[2], b[3], b[4]))
           /\ UNCHANGED live

GetFrustrumAspect ==
    \E p \in Targets, b \in RatioBufs :
        /\ Call("GetFrustrumAspect", p, <<>>, <<b>>, ON_Viewport_GetFrustrumAspect(heap, p, b))
        /\ UNCHANGED live

GetFrustumCenter ==
    \E p \in Targets, b \in CenterBufs :
        /\ Call("GetFrustumCenter", p, <<>>, <<b>>, ON_Viewport_GetFrustumCenter(heap, p, b))
        /\ UNCHANGED live

GetDouble ==
    \E p \in Targets, which \in idxFrustumLeft..(idxFrustumMaximumDiameter + 1) :
        /\ Call("GetDouble", p, <<which>>, <<>>, ON_Viewport_GetDouble(heap, p, which))
        /\ UNCHANGED live

GetPlane ==
    \E p \in Targets, which \in {idxNearPlane, idxTopPlane, idxTopPlane + 1}, b \in PlaneBufs,
       native \in Outcomes(ON_Plane(ZeroVec, Vec(0, 0, 1))) :
        /\ Call("GetPlane", p, <<which>>, <<b>>, ON_Viewport_GetPlane(heap, p, which, b, native))
        /\ UNCHANGED live

SetScreenPort ==
    \E p \in Targets, a \in PortInputs :
        /\ Call("SetScreenPort", p, a, <<>>,
                ON_Viewport_SetScreenPort(heap, p, a[1], a[2], a[3], a[4], a[5], a[6]))
        /\ UNCHANGED live

GetScreenPort ==
    \E p \in Targets, i \in 0..6 :
        /\ Call("GetScreenPort", p, <<>>, SixBufs(i), ON_Viewport_GetScreenPort(heap, p, SixBufs(i)))
        /\ UNCHANGED live

GetScreenPortAspect ==
    \E p \in Targets, b \in RatioBufs :
        /\ Call("GetScreenPortAspect", p, <<>>, <<b>>,
                ON_Viewport_GetScreenPortAspect(heap, p, b))
        /\ UNCHANGED live

GetCameraAngle2 ==
    \E p \in Targets, i \in 0..3, native \in Outcomes(1) :
        LET b == SomeBufs(3, i, 9)
        IN /\ Call("GetCameraAngle2", p, <<>>, b,
                   ON_Viewport_GetCameraAngle2(heap, p, b[1], b[2], b[3], native))
           /\ UNCHANGED live

GetCameraAngle ==
    \E p \in Targets, b \in NumBufs, native \in Outcomes(1) :
        /\ Call("GetCameraAngle", p, <<>>, <<b>>, ON_Viewport_GetCameraAngle(heap, p, b, native))
        /\ UNCHANGED live

SetCameraAngle ==
    \E p \in Targets, d \in {0, 1} :
        /\ p # NULL => CameraAngleExact(heap[p], d)
        /\ Call("SetCameraAngle", p, <<d>>, <<>>, ON_Viewport_SetCameraAngle(heap, p, d))
        /\ UNCHANGED live

GetXform ==
    \E p \in Targets, cs \in {<<0, 1>>}, b \in XformBufs, native \in Outcomes(IdentityXform) :
        /\ Call("GetXform", p, cs, <<b>>, ON_Viewport_GetXform(heap, p, cs[1], cs[2], b, native))
        /\ UNCHANGED live

GetFrustumLine ==
    \E p \in Targets, xy \in {<<1, 1>>}, b \in LineBufs,
       native \in Outcomes(ON_Line(ZeroVec, Vec(0, 0, -1))) :
        /\ Call("GetFrustumLine", p, xy, <<b>>,
                ON_Viewport_GetFrustumLine(heap, p, xy[1], xy[2], b, native))
        /\ UNCHANGED live

GetWorldToScreenScale ==
    \E p \in Targets, pt \in {Struct3(0, 0, -3)}, b \in NumBufs, native \in Outcomes(1) :
        /\ Call("GetWorldToScreenScale", p, <<pt>>, <<b>>,
                ON_Viewport_GetWorldToScreenScale(heap, p, pt, b, native))
        /\ UNCHANGED live

GetDollyCameraVector ==
    \E p \in Targets, screen \in {<<0, 0, 1, 1>>}, dist \in {1}, b \in VecBufs,
       native \in Outcomes(Vec(1, 0, 0)) :
        /\ Call("GetDollyCameraVector", p, <<screen, dist>>, <<b>>,
                ON_Viewport_GetDollyCameraVector(heap, p, screen, dist, b, native))
        /\ UNCHANGED live

GetViewScale ==
    \E p \in Targets, i \in 0..2 :
        LET b == SomeBufs(2, i, 9)
        IN /\ Call("GetViewScale", p, <<>>, b, ON_Viewport_GetViewScale(heap, p, b[1], b[2]))
           /\ UNCHANGED live

SetViewScale ==
    \E p \in Targets, a \in {<<2, 1>>, <<0, 1>>} :
        /\ Call("SetViewScale", p, a, <<>>, ON_Viewport_SetViewScale(heap, p, a[1], a[2]))
        /\ UNCHANGED live

ClipModXformIsIdentity ==
    \E p \in Targets :
        /\ Call("ClipModXformIsIdentity", p, <<>>, <<>>,
                ON_Viewport_ClipModXformIsIdentity(heap, p))
        /\ UNCHANGED live

GetPerspectiveMinNearOverFar ==
    \E p \in Targets :
        /\ Call("GetPerspectiveMinNearOverFar", p, <<>>, <<>>,
                ON_Viewport_GetPerspectiveMinNearOverFar(heap, p))
        /\ UNCHANGED live

SetPerspectiveMinNearOverFar ==
    \E p \in Targets, d \in Ratios :
        /\ Call("SetPerspectiveMinNearOverFar", p, <<d>>, <<>>,
                ON_Viewport_SetPerspectiveMinNearOverFar(heap, p, d))
        /\ UNCHANGED live

GetPerspectiveMinNearDist ==
    \E p \in Targets :
        /\ Call("GetPerspectiveMinNearDist", p, <<>>, <<>>,
                ON_Viewport_GetPerspectiveMinNearDist(heap, p))
        /\ UNCHANGED live

SetPerspectiveMinNearDist ==
    \E p \in Targets, d \in {0, 2} :
        /\ Call("SetPerspectiveMinNearDist", p, <<d>>, <<>>,
                ON_Viewport_SetPerspectiveMinNearDist(heap, p, d))
        /\ UNCHANGED live

FourBufs(i) == [k \in 1..4 |-> IF k = i THEN NullBuf(Garbage) ELSE Buf(Garbage)]
\* what the native method yields for the call GetNearFarRect(p, near, ...)
RectOf(h, p, near) == IF near THEN VP_GetNearRect(h[p]) ELSE VP_GetFarRect(h[p])

GetNearFarRect ==
    \E p \in Targets, near \in BOOLEAN, i \in 0..4 :
        \E ub \in IF p = NULL THEN {"unused"} ELSE NullReferenceOutcomes(RectOf(heap, p, near)) :
            /\ p # NULL => FarRectExact(heap[p])
            /\ Call("GetNearFarRect", p, <<near>>, FourBufs(i),
                    ON_Viewport_GetNearFarRect(heap, p, near, FourBufs(i)[1], FourBufs(i)[2],
                                               FourBufs(i)[3], FourBufs(i)[4], ub))
            /\ UNCHANGED live

\* ------------------------------------------------------- specifications
\* the frustum and the projection mode
NextFrustum ==
    \/ New
    \/ SetFrustum
    \/ GetFrustum
    \/ SetFrustumAspect
    \/ SetFrustumNearFar
    \/ SetFrustumNearFarBoundingBox
    \/ SetFrustumNearFarSphere
    \/ SetFrustrumNearFar
    \/ DollyFrustum
    \/ ChangeToParallelProjection
    \/ ChangeToPerspectiveProjection
    \/ ChangeToTwoPointPerspectiveProjection
    \/ ChangeToSymmetricFrustum
    \/ ExtentsBBox
    \/ ExtentsSphere
    \/ ZoomToScreenRect
    \/ SetCameraUp
    \/ SetIsFrustumSymmetry
    \/ SetCameraAngle

SpecFrustum == Init /\ [][NextFrustum]_vars

\* the camera and its locks
NextCamera ==
    \/ New
    \/ SetLocked
    \/ Unlock
    \/ SetCameraLocation
    \/ SetCameraDirection
    \/ SetCameraUp
    \/ DollyCamera

SpecCamera == Init /\ [][NextCamera]_vars

\* the lifetime of the objects
NextCopy ==
    \/ New
    \/ Delete
    \/ SetFrustum
    \/ SetCameraLocation
    \/ SetCameraUp
    \/ SetLocked
    \/ SetIsFrustumSymmetry
    \/ ChangeToPerspectiveProjection
    \/ SetTargetPoint
    \/ SetViewportId
    \/ SetPerspectiveClippingPlaneConstraints
    \/ SetCamera35mmLensLength

SpecCopy == Init /\ [][NextCopy]_vars

\* the depth queries
NextDepth ==
    \/ New
    \/ SetCameraLocation
    \/ SetCameraDirection
    \/ GetPointDepth
    \/ GetBoundingBoxDepth
    \/ GetSphereDepth

SpecDepth == Init /\ [][NextDepth]_vars

\* the near and far rectangle, null pointers included
InitRect == Start(MaxSteps, TRUE)
NextRect ==
    \/ New
    \/ SetFrustum
    \/ SetCameraLocation
    \/ SetCameraDirection
    \/ ChangeToPerspectiveProjection
    \/ GetNearFarRect

SpecRect == InitRect /\ [][NextRect]_vars

\* every exported function, null pointers included
Next ==
    \/ NextFrustum
    \/ NextCamera
    \/ NextCopy
    \/ NextDepth
    \/ GetBool
    \/ CameraLocation
    \/ CameraDirection
    \/ CameraUp
    \/ CameraAxis
    \/ ClipModXform
    \/ ClipModInverseXform
    \/ GetCamera35mmLensLength
    \/ FrustumCenterPoint
    \/ TargetPoint
    \/ TargetDistance
    \/ GetPerspectiveClippingPlaneConstraints
    \/ GetViewportId
    \/ GetCameraFrame
    \/ GetFrustrumAspect
    \/ GetFrustumCenter
    \/ GetDouble
    \/ GetPlane
    \/ SetScreenPort
    \/ GetScreenPort
    \/ GetScreenPortAspect
    \/ GetCameraAngle2
    \/ GetCameraAngle
    \/ SetCameraAngle
    \/ GetXform
    \/ GetFrustumLine
    \/ GetWorldToScreenScale
    \/ GetDollyCameraVector
    \/ GetViewScale
    \/ SetViewScale
    \/ ClipModXformIsIdentity
    \/ GetPerspectiveMinNearOverFar
    \/ SetPerspectiveMinNearOverFar
    \/ GetPerspectiveMinNearDist
    \/ SetPerspectiveMinNearDist
    \/ GetNearFarRect

Spec == InitAll /\ [][Next]_vars

\* ======================================================================
\* The claims
\* ======================================================================
\* the call just made was op on a viewport the caller owns
Called(op) == last'.op = op /\ last'.pVP \in live
ArgsValid(a) == IsValidFrustumArgs(a[1], a[2], a[3], a[4], a[5], a[6])
\* what GetFrustum with six non-null outputs yields on viewport p of heap h
ReadFrustum(h, p) == ON_Viewport_GetFrustum(h, p, SixBufs(0))
\* the six output buffers holding the frustum a
FrustumBufs(a) == [k \in 1..6 |-> Buf(a[k])]

\* C1: in every reachable state, whether the calls made succeeded or failed,
\* the frustum of every viewport satisfies left < right, bottom < top and
\* 0 < near < far.
C1_FrustumInvariant ==
    \A p \in live :
        /\ heap[p].left < heap[p].right
        /\ heap[p].bottom < heap[p].top
        /\ 0 < heap[p].near
        /\ heap[p].near < heap[p].far

\* C1 witness: a mutating call has just failed on a viewport whose frustum an
\* earlier call changed
C1_Witness ==
    /\ last.op \in {"DollyFrustum", "SetFrustumNearFarBoundingBox", "ZoomToScreenRect"}
    /\ last.pVP \in live
    /\ last.rc = FALSE
    /\ FrustumOf(heap[last.pVP]) # FrustumOf(DefaultViewport)

\* C2: SetFrustum with l >= r, b >= t, n <= 0 or n >= f returns false and
\* leaves the whole viewport state unchanged; GetFrustum afterwards returns
\* the six values held before the call.
C2_SetFrustumRejects ==
    [][(Called("SetFrustum") /\ ~ArgsValid(last'.arg))
          => /\ last'.rc = FALSE
             /\ heap' = heap
             /\ ReadFrustum(heap', last'.pVP) = ReadFrustum(heap, last'.pVP)
             /\ ReadFrustum(heap', last'.pVP).rc = TRUE]_vars

\* C2 witness: an invalid SetFrustum has just been refused on a viewport
\* whose frustum is no longer the default one
C2_Witness ==
    /\ last.op = "SetFrustum"
    /\ last.pVP \in live
    /\ ~ArgsValid(last.arg)
    /\ last.rc = FALSE
    /\ FrustumOf(heap[last.pVP]) # FrustumOf(DefaultViewport)

Setters == {"SetCameraLocation", "SetCameraDirection", "SetCameraUp"}
\* the index ON_Viewport_SetLocked takes for the field a setter sets
LockOf(op) ==
    CASE op = "SetCameraLocation" -> idxCameraLocationLock
      [] op = "SetCameraDirection" -> idxCameraDirectionLock
      [] op = "SetCameraUp" -> idxCameraUpLock
\* the index ON_Viewport_GetBool takes for the lock of that field
LockQueryOf(op) ==
    CASE op = "SetCameraLocation" -> idxIsCameraLocationLocked
      [] op = "SetCameraDirection" -> idxIsCameraDirectionLocked
      [] op = "SetCameraUp" -> idxIsCameraUpLocked
FieldOf(vp, op) ==
    CASE op = "SetCameraLocation" -> vp.cameraLocation
      [] op = "SetCameraDirection" -> vp.cameraDirection
      [] op = "SetCameraUp" -> vp.cameraUp
\* a location is any point; a direction or an up vector is not the zero vector
IsValidFor(op, v) == op = "SetCameraLocation" \/ v # Struct3(0, 0, 0)
\* what the lock query of the field of setter op answers on viewport p of heap h
IsLocked(h, p, op) == ON_Viewport_GetBool(h, p, LockQueryOf(op)).rc

\* C4 as stated: right after SetLocked(F, true) the setter of F fails and
\* leaves F unchanged.
C4_Original ==
    [][\A op \in Setters :
          (/\ last.op = "SetLocked"
           /\ last.pVP \in live
           /\ last.arg = <<LockOf(op), TRUE>>
           /\ last'.op = op
           /\ last'.pVP = last.pVP)
          => /\ last'.rc = FALSE
             /\ FieldOf(heap'[last.pVP], op) = FieldOf(heap[last.pVP], op)]_vars

\* C4 amended: in a build that defines RHINO_V5SR, SetLocked(F, true) locks F;
\* F stays locked until SetLocked(F, false) or Unlock(true); while F is locked
\* every call of its setter fails and changes nothing; while F is not locked
\* its setter, called with a valid value, succeeds and F holds that value.
\* The lock of one field has no effect on the setters of the other two.
C4_Locks ==
    [][v5sr =>
        \A op \in Setters :
          /\ (Called("SetLocked") /\ last'.arg = <<LockOf(op), TRUE>>)
                => IsLocked(heap', last'.pVP, op)
          /\ (\/ Called("SetLocked") /\ last'.arg = <<LockOf(op), FALSE>>
              \/ Called("Unlock") /\ last'.arg = <<TRUE>>)
                => ~IsLocked(heap', last'.pVP, op)
          /\ (/\ last'.pVP \in live
              /\ ~(last'.op = "SetLocked" /\ last'.arg[1] = LockOf(op))
              /\ ~(last'.op = "Unlock" /\ last'.arg = <<TRUE>>)
              /\ last'.op # "New")
                => IsLocked(heap', last'.pVP, op) = IsLocked(heap, last'.pVP, op)
          /\ (Called(op) /\ IsLocked(heap, last'.pVP, op))
                => last'.rc = FALSE /\ heap' = heap
          /\ (Called(op) /\ ~IsLocked(heap, last'.pVP, op) /\ IsValidFor(op, last'.arg[1]))
                => /\ last'.rc = TRUE
                   /\ FieldOf(heap'[last'.pVP], op) = ON_3dVector(last'.arg[1].val)]_vars

\* C4 witness: in a build with RHINO_V5SR the direction setter has just been
\* refused a valid direction because the direction is locked, while the
\* location is not locked
C4_Witness ==
    /\ v5sr
    /\ last.op = "SetCameraDirection"
    /\ last.pVP \in live
    /\ last.arg[1] # Struct3(0, 0, 0)
    /\ last.rc = FALSE
    /\ IsLocked(heap, last.pVP, "SetCameraDirection")
    /\ ~IsLocked(heap, last.pVP, "SetCameraLocation")

\* C5: ON_Viewport_New with a non-null viewport V returns a new, distinct
\* instance that holds V's state at the time of the copy; a call on one
\* instance, its deletion included, changes no other instance.
C5_CopyIndependence ==
    [][/\ (last'.op = "New" /\ last'.pVP # NULL)
            => /\ last'.rc \notin live
               /\ last'.rc # last'.pVP
               /\ last'.rc \in live'
               /\ heap'[last'.rc] = heap[last'.pVP]
       /\ \A q \in live :
            (last'.op = "New" \/ q # last'.pVP) => (q \in live' /\ heap'[q] = heap[q])]_vars

\* C5 witness: the copy of a viewport has just been changed by a call and the
\* original still holds the default state
C5_Witness ==
    /\ live = {1, 2}
    /\ last.op \in {"SetFrustum", "SetCameraLocation", "SetViewportId"}
    /\ last.pVP = 2
    /\ heap[2] # DefaultViewport
    /\ heap[1] = DefaultViewport

ChangeToOps ==
    {"ChangeToParallelProjection", "ChangeToPerspectiveProjection",
     "ChangeToTwoPointPerspectiveProjection", "ChangeToSymmetricFrustum"}

\* C6: each ChangeTo* transition returns failure and changes no viewport
\* state when the camera or the frustum is invalid at the time of the call;
\* ChangeToPerspectiveProjection does so too when targetDistance <= 0.
C6_ChangeToRejects ==
    [][/\ (last'.op \in ChangeToOps /\ last'.pVP \in live /\ ~VP_IsValid(heap[last'.pVP]))
            => last'.rc = FALSE /\ heap' = heap
       /\ (Called("ChangeToPerspectiveProjection") /\ last'.arg[1] <= 0)
            => last'.rc = FALSE /\ heap' = heap]_vars

\* C6 witness: in a build with RHINO_V5SR a transition has just been refused
\* on a viewport whose camera is invalid
C6_Witness ==
    /\ v5sr
    /\ last.op \in ChangeToOps
    /\ last.pVP \in live
    /\ last.rc = FALSE
    /\ ~VP_IsValidCamera(heap[last.pVP])

\* C9: SetCameraLocation(P) on a viewport whose location is not locked
\* succeeds; CameraLocation then returns exactly P, whatever the location was
\* before, and nothing else of the viewport changes.
C9_SetLocationIsAbsolute ==
    [][(Called("SetCameraLocation") /\ ~heap[last'.pVP].locationLocked)
          => /\ last'.rc = TRUE
             /\ ON_Viewport_CameraLocation(heap', last'.pVP, Buf(Garbage)).out[1].val
                    = ON_3dPoint(last'.arg[1].val)
             /\ heap'[last'.pVP]
                    = [heap[last'.pVP] EXCEPT !.cameraLocation = ON_3dPoint(last'.arg[1].val)]]_vars

\* C9 witness: the location has just been set to (1, 2, 3) on a viewport whose
\* direction is no longer the default one
C9_Witness ==
    /\ last.op = "SetCameraLocation"
    /\ last.pVP \in live
    /\ last.rc = TRUE
    /\ last.arg = <<Struct3(1, 2, 3)>>
    /\ heap[last.pVP].cameraLocation = Vec(1, 2, 3)
    /\ heap[last.pVP].cameraDirection # DefaultViewport.cameraDirection

\* --------------------------------------------------------------------
\* the exported functions by the type of their result
BoolOps ==
    ChangeToOps \cup Setters \cup
    {"GetBool", "SetFrustum", "GetFrustum", "SetFrustumNearFar", "SetFrustumNearFarBoundingBox",
     "SetFrustumNearFarSphere", "SetFrustrumNearFar", "GetPointDepth", "GetBoundingBoxDepth",
     "GetSphereDepth", "GetCamera35mmLensLength", "SetCamera35mmLensLength", "ExtentsBBox",
     "ExtentsSphere", "ZoomToScreenRect", "DollyCamera", "DollyFrustum", "GetCameraFrame",
     "GetFrustrumAspect", "GetPlane", "SetScreenPort", "GetScreenPort", "GetScreenPortAspect",
     "GetCameraAngle2", "GetCameraAngle", "SetCameraAngle", "GetXform", "GetFrustumLine",
     "GetWorldToScreenScale", "GetDollyCameraVector", "ClipModXformIsIdentity",
     "GetNearFarRect"}
\* int, double and ON_UUID results
NumberOps ==
    {"SetFrustumAspect", "SetViewportId", "TargetDistance", "GetViewportId", "GetFrustumCenter",
     "GetDouble", "SetPerspectiveMinNearOverFar", "GetPerspectiveMinNearDist",
     "SetPerspectiveMinNearDist"}
\* a double result that the model holds as a ratio
RatioOps == {"GetPerspectiveMinNearOverFar"}
VectorAccessors ==
    {"CameraLocation", "CameraDirection", "CameraUp", "CameraAxis", "TargetPoint"}
XformAccessors == {"ClipModXform", "ClipModInverseXform"}
\* the calls that take a viewport pointer to work on
OnViewport(op) == op \notin {"none", "New", "GetPerspectiveClippingPlaneConstraints"}
\* the result that tells the caller of op that the call failed
IsFailure(op, rc) ==
    IF op \in BoolOps THEN rc = FALSE
    ELSE IF op \in NumberOps THEN rc = 0
    ELSE IF op \in RatioOps THEN rc = ZeroRatio
    ELSE FALSE

\* C7 as stated: every operation called on a null viewport reports failure
\* and mutates nothing, and the pure accessors yield the zero vector, the
\* identity transform or the nil UUID.
C7_Original ==
    [][(OnViewport(last'.op) /\ last'.pVP = NULL)
          => /\ heap' = heap
             /\ last'.op \in BoolOps => last'.rc = FALSE
             /\ last'.op = "GetViewportId" => last'.rc = ON_nil_uuid
             /\ (last'.op \in VectorAccessors /\ ~last'.in[1].null)
                   => last'.out[1].val = ZeroVec
             /\ (last'.op \in XformAccessors /\ ~last'.in[1].null)
                   => last'.out[1].val = IdentityXform]_vars

\* C7 amended: every operation called on a null viewport mutates nothing and
\* writes through no output pointer, so that the caller's buffers hold what
\* they held before; an operation that returns a value returns false, 0 or
\* the nil UUID, and one that returns nothing returns nothing.
C7_NullViewport ==
    [][(OnViewport(last'.op) /\ last'.pVP = NULL)
          => /\ heap' = heap
             /\ live' = live
             /\ last'.out = last'.in
             /\ IF last'.op \in BoolOps \cup NumberOps \cup RatioOps
                THEN IsFailure(last'.op, last'.rc)
                ELSE last'.rc = "void"
             /\ last'.op = "GetViewportId" => last'.rc = ON_nil_uuid]_vars

\* C7 witness: CameraLocation has just been called on a null viewport with a
\* buffer that held (7, 7, 7), and the buffer still holds it
C7_Witness ==
    /\ last.op = "CameraLocation"
    /\ last.pVP = NULL
    /\ last.in = <<Buf(Garbage)>>
    /\ last.out[1].val = Garbage

DepthOps == {"GetPointDepth", "GetBoundingBoxDepth", "GetSphereDepth"}
\* the depth query c of record `last`, repeated on heap h with the incoming
\* range b and growNearFar = grow
Requery(h, c, b, grow) ==
    CASE c.op = "GetPointDepth"
           -> ON_Viewport_GetPointDepth(h, c.pVP, c.arg[1], b[1], b[2], grow)
      [] c.op = "GetBoundingBoxDepth"
           -> ON_Viewport_GetBoundingBoxDepth(h, c.pVP, c.arg[1], c.arg[2], b[1], b[2], grow)
      [] c.op = "GetSphereDepth"
           -> ON_Viewport_GetSphereDepth(h, c.pVP, c.arg[1], c.arg[2], b[1], b[2], grow)
GrowOf(c) == c.arg[Len(c.arg)]
BothBufs(b) == ~b[1].null /\ ~b[2].null

\* C8: a depth query that succeeds with growNearFar = true yields
\* near' = min(near_in, objNear) and far' = max(far_in, objFar), e.g. (5, 10)
\* and the object range (2, 7) give (2, 10); with growNearFar = false it
\* yields the object's range whatever the incoming values; the viewport is
\* unchanged in both cases.
C8_DepthUnion ==
    [][/\ (last'.op \in DepthOps /\ last'.pVP \in live /\ BothBufs(last'.in))
            => /\ heap' = heap
               /\ last'.rc = (VP_IsValidCamera(heap[last'.pVP])
                              /\ Requery(heap, last', <<Buf(0), Buf(0)>>, FALSE).rc)
               /\ last'.rc = TRUE
                    => LET obj == Requery(heap, last', <<Buf(0), Buf(0)>>, FALSE).out
                       IN /\ obj[1].val <= obj[2].val
                          /\ GrowOf(last')
                               => /\ last'.out[1].val = Min2(last'.in[1].val, obj[1].val)
                                  /\ last'.out[2].val = Max2(last'.in[2].val, obj[2].val)
                          /\ ~GrowOf(last')
                               => \A b \in {x \in RangeBufs : BothBufs(x)} :
                                      Requery(heap, last', b, FALSE).out = last'.out
       /\ (/\ last'.op = "GetBoundingBoxDepth"
           /\ last'.pVP \in live
           /\ heap[last'.pVP].cameraLocation = DefaultViewport.cameraLocation
           /\ heap[last'.pVP].cameraDirection = DefaultViewport.cameraDirection
           /\ last'.arg = <<Struct3(0, 0, -6), Struct3(1, 1, -1), TRUE>>
           /\ last'.in = <<Buf(5), Buf(10)>>)
            => (last'.rc = TRUE /\ last'.out = <<Buf(2), Buf(10)>>)
       /\ (/\ last'.op = "GetBoundingBoxDepth"
           /\ last'.pVP \in live
           /\ heap[last'.pVP].cameraLocation = DefaultViewport.cameraLocation
           /\ heap[last'.pVP].cameraDirection = DefaultViewport.cameraDirection
           /\ last'.arg = <<Struct3(0, 0, -6), Struct3(1, 1, -1), FALSE>>
           /\ BothBufs(last'.in))
            => (last'.rc = TRUE /\ last'.out = <<Buf(2), Buf(7)>>)]_vars

\* C8 witness: GetBoundingBoxDepth with growNearFar = true has just turned
\* (5, 10) into (2, 10)
C8_Witness ==
    /\ last.op = "GetBoundingBoxDepth"
    /\ last.pVP \in live
    /\ last.arg[3] = TRUE
    /\ last.rc = TRUE
    /\ last.in = <<Buf(5), Buf(10)>>
    /\ last.out = <<Buf(2), Buf(10)>>

\* the functions whose body depends on RHINO_V5SR
V5Ops ==
    ChangeToOps \cup
    {"GetCamera35mmLensLength", "SetCamera35mmLensLength", "SetLocked", "SetIsFrustumSymmetry",
     "Unlock", "FrustumCenterPoint", "TargetDistance", "GetPerspectiveClippingPlaneConstraints",
     "SetPerspectiveClippingPlaneConstraints"}
IsV5Call(c) ==
    \/ c.op \in V5Ops
    \/ c.op = "GetBool" /\ c.arg[1] \in idxIsPerspectiveProjection..idxIsFrustumTopBottomSymmetric

\* C10 as stated: without RHINO_V5SR every operation of the conditional set
\* reports failure to its caller and leaves the viewport and the caller's
\* outputs unchanged.
C10_Original ==
    [][(~v5sr /\ IsV5Call(last'))
          => /\ heap' = heap
             /\ last'.out = last'.in
             /\ IsFailure(last'.op, last'.rc)]_vars

\* C10 amended: without RHINO_V5SR every operation of the conditional set
\* leaves the viewport and the caller's outputs unchanged; those that return
\* bool return false and TargetDistance returns 0; SetLocked,
\* SetIsFrustumSymmetry, Unlock, FrustumCenterPoint and
\* Get/SetPerspectiveClippingPlaneConstraints return nothing.
C10_Unsupported ==
    [][(~v5sr /\ IsV5Call(last'))
          => /\ heap' = heap
             /\ last'.out = last'.in
             /\ IF last'.op \in BoolOps \cup NumberOps \cup RatioOps
                THEN IsFailure(last'.op, last'.rc)
                ELSE /\ last'.rc = "void"
                     /\ last'.op \in {"SetLocked", "SetIsFrustumSymmetry", "Unlock",
                                      "FrustumCenterPoint",
                                      "GetPerspectiveClippingPlaneConstraints",
                                      "SetPerspectiveClippingPlaneConstraints"}]_vars

\* C10 witness: without RHINO_V5SR SetLocked(location, true) has just been
\* called on a viewport and the location is not locked
C10_Witness ==
    /\ ~v5sr
    /\ last.op = "SetLocked"
    /\ last.pVP \in live
    /\ last.arg = <<idxCameraLocationLock, TRUE>>
    /\ last.rc = "void"
    /\ ~heap[last.pVP].locationLocked

\* --------------------------------------------------------------------
\* C11: GetNearFarRect called with a null viewport or with any one of
\* leftBottom, rightBottom, leftTop, rightTop null returns false, writes
\* through none of its output pointers, and does not hand the native
\* GetNearRect/GetFarRect a reference to a null output.
C11_NullOutputs ==
    [][(/\ last'.op = "GetNearFarRect"
        /\ (last'.pVP = NULL \/ \E i \in 1..4 : last'.in[i].null))
          => /\ last'.ub = "none"
             /\ last'.rc = FALSE
             /\ last'.out = last'.in]_vars

====
